---- MODULE Spec2Model ----
(***************************************************************************)
(* A model of the innominatus-graph core: the typed graph store, its edge  *)
(* validator, the node state machine with its two propagation rules, the  *)
(* Kahn-style topological planner, the execution engine that walks the     *)
(* planned order, and the ObservableGraph that notifies its observers of   *)
(* mutations.                                                              *)
(*                                                                         *)
(* Go maps are iterated in an unspecified order.  Every "for ... range"    *)
(* over g.Nodes, g.Edges or inDegree is therefore modelled as a choice     *)
(* over all iteration orders.                                              *)
(*                                                                         *)
(* The calls of an ObservableGraph are modelled step by step, one frame    *)
(* per goroutine, so that calls made concurrently interleave.              *)
(***************************************************************************)
EXTENDS Integers, Sequences, FiniteSets, TLC

VARIABLES
    nodes,   \* Graph.Nodes: node ID -> [type, name, state, startedAt,
             \* completedAt, duration]
    edges,   \* Graph.Edges: edge ID -> [from, to, type]
    op,      \* the last call: [name, err, id, written]
    ret,     \* what the last call returned beside its error
    trace,   \* the calls the last ExecuteGraph made on the Repository and
             \* the WorkflowRunner, and the nodes it passed to executeNode;
             \* for an ObservableGraph, its calls, the transitions applied
             \* and the notifications delivered, in the order they happened
    observers,  \* ObservableGraph.observers, a slice of observers
    frames   \* the ObservableGraph call each goroutine is in, with its locals

vars == <<nodes, edges, op, ret, trace, observers, frames>>

---------------------------------------------------------------------------
(* Bounds *)

\* Edge IDs available to AddEdge under Spec.
MaxEdges == 2
\* Edges of the graphs TopologicalSort is applied to under SpecTopo.
TopoMaxEdges == 3
\* Edges of the graphs UpdateNodeState is applied to under SpecState.
StateMaxEdges == 2
\* The most edges a graph of SpecLife holds.
LifeMaxEdges == 1
\* The most edges a graph of SpecExec holds.
ExecMaxEdges == 2
\* The most calls made on an ObservableGraph under SpecObs.
ObsMaxCalls == 2
\* The latest clock reading under SpecTime.
TimeMax == 2
\* The most calls made on an ObservableGraph under SpecTrack.
TrackMaxCalls == 4

EdgeNames == <<"e1", "e2", "e3", "e4", "e5">>

---------------------------------------------------------------------------
(* Types *)

NodeTypeSpec     == "spec"
NodeTypeWorkflow == "workflow"
NodeTypeStep     == "step"
NodeTypeResource == "resource"
NodeTypes == {NodeTypeSpec, NodeTypeWorkflow, NodeTypeStep, NodeTypeResource}

EdgeTypeDependsOn  == "depends-on"
EdgeTypeProvisions == "provisions"
EdgeTypeCreates    == "creates"
EdgeTypeBindsTo    == "binds-to"
EdgeTypeContains   == "contains"
EdgeTypeConfigures == "configures"
EdgeTypes == {EdgeTypeDependsOn, EdgeTypeProvisions, EdgeTypeCreates,
              EdgeTypeBindsTo, EdgeTypeContains, EdgeTypeConfigures}

NodeStateWaiting   == "waiting"
NodeStatePending   == "pending"
NodeStateRunning   == "running"
NodeStateFailed    == "failed"
NodeStateSucceeded == "succeeded"
NodeStates == {NodeStateWaiting, NodeStatePending, NodeStateRunning,
               NodeStateFailed, NodeStateSucceeded}

\* The error kinds of the calls ("" is a nil error).
NoError           == ""
NodeInvalid       == "NodeInvalid"
EdgeInvalid       == "EdgeInvalid"
DuplicateID       == "DuplicateID"
DanglingReference == "DanglingReference"
EdgeTypeViolation == "EdgeTypeViolation"
NotFound          == "NotFound"
CycleDetected     == "CycleDetected"

\* A nil *Node or *Edge argument.
NilPtr == [nil |-> TRUE]
\* The nil *time.Time and *time.Duration of a node that has no stamp; the
\* stamps and durations that are set are natural numbers.
NilTime == -1
\* A nil slice result.
NilSlice == << >>

EmptyMap == [x \in {} |-> x]

\* delete(m, k) for every k in ks
MapDelete(m, ks) == [k \in (DOMAIN m) \ ks |-> m[k]]
\* m[k] = v
MapPut(m, k, v) == [x \in (DOMAIN m) \cup {k} |-> IF x = k THEN v ELSE m[x]]

OpRec(name, err, id, written) ==
    [name |-> name, err |-> err, id |-> id, written |-> written]

---------------------------------------------------------------------------
(* The relations the properties are stated with *)

\* The pairs <<a, b>> of the direction rule, a to be scheduled before b: a
\* depends-on edge puts its target before its source, every other edge its
\* source before its target.
MustPrecede(g_edges) ==
    {IF g_edges[e].type = "depends-on"
     THEN <<g_edges[e].to, g_edges[e].from>>
     ELSE <<g_edges[e].from, g_edges[e].to>> : e \in DOMAIN g_edges}

\* R with every pair two of its pairs chain to.
Chained(R) ==
    R \cup {<<pq[1][1], pq[2][2]>> : pq \in {x \in R \X R : x[1][2] = x[2][1]}}

RECURSIVE TransitiveClosure(_)
TransitiveClosure(R) ==
    IF Chained(R) = R THEN R ELSE TransitiveClosure(Chained(R))

\* A directed cycle in the combined direction relation.
HasDirectedCycle(g_edges) ==
    \E p \in TransitiveClosure(MustPrecede(g_edges)) : p[1] = p[2]

\* The rule table: <<edge type, type of the source, type of the target>>.
RuleTable ==
    ({"depends-on"} \X NodeTypes \X NodeTypes)
    \cup ({"provisions"} \X {"workflow"} \X {"resource"})
    \cup ({"creates"} \X {"workflow"} \X NodeTypes)
    \cup ({"binds-to"} \X NodeTypes \X {"resource"})
    \cup ({"contains"} \X {"workflow"} \X {"step"})
    \cup ({"configures"} \X {"step"} \X {"resource"})

\* The workflows with a contains edge to n, and the nodes w contains.
ParentsOf(g_edges, n) ==
    {g_edges[e].from : e \in {x \in DOMAIN g_edges :
        g_edges[x].type = "contains" /\ g_edges[x].to = n}}

ChildrenOf(g_edges, w) ==
    {g_edges[e].to : e \in {x \in DOMAIN g_edges :
        g_edges[x].type = "contains" /\ g_edges[x].from = w}}

\* seq lists every element of S once.
IsPermutation(seq, S) ==
    /\ Len(seq) = Cardinality(S)
    /\ {seq[i] : i \in 1..Len(seq)} = S

\* The place of x in seq (0 when it is not in it).
PositionIn(seq, x) ==
    IF \E i \in 1..Len(seq) : seq[i] = x
    THEN CHOOSE i \in 1..Len(seq) : seq[i] = x
    ELSE 0

---------------------------------------------------------------------------
(* GraphStore *)

\* The stored node: State defaults to waiting when unset.
AddNodeStored(node) ==
    [type  |-> node.type,
     name  |-> node.name,
     state |-> IF node.state = "" THEN NodeStateWaiting ELSE node.state,
     startedAt   |-> node.startedAt,
     completedAt |-> node.completedAt,
     duration    |-> node.duration]

\* Mutant: the duplicate check is missing.
AddNodeErr_NoDuplicateCheck(g_nodes, node) ==
    IF node = NilPtr THEN NodeInvalid
    ELSE IF node.id = "" THEN NodeInvalid
    ELSE NoError

AddNodeErr(g_nodes, node) ==
    IF node = NilPtr THEN NodeInvalid
    ELSE IF node.id = "" THEN NodeInvalid
    ELSE IF node.id \in DOMAIN g_nodes THEN DuplicateID
    ELSE NoError

AddNode(node) ==
    LET err == AddNodeErr(nodes, node) IN
    /\ nodes' = IF err = NoError
                THEN MapPut(nodes, node.id, AddNodeStored(node))
                ELSE nodes
    /\ edges' = edges
    /\ op' = OpRec("AddNode", err, IF node = NilPtr THEN "" ELSE node.id, {})
    /\ ret' = NilSlice
    /\ UNCHANGED <<trace, observers, frames>>

\* Mutant: an edge type the switch does not name falls through to return nil.
validateEdgeSwitch_DefaultAccepts(edgeType, fromType, toType) ==
    IF edgeType \notin EdgeTypes THEN NoError
    ELSE IF edgeType = EdgeTypeDependsOn THEN NoError
    ELSE IF edgeType = EdgeTypeCreates
         THEN (IF fromType # NodeTypeWorkflow THEN EdgeTypeViolation ELSE NoError)
    ELSE IF edgeType = EdgeTypeBindsTo
         THEN (IF toType # NodeTypeResource THEN EdgeTypeViolation ELSE NoError)
    ELSE IF fromType # (IF edgeType = EdgeTypeConfigures THEN NodeTypeStep
                        ELSE NodeTypeWorkflow) THEN EdgeTypeViolation
    ELSE IF toType # (IF edgeType = EdgeTypeContains THEN NodeTypeStep
                      ELSE NodeTypeResource) THEN EdgeTypeViolation
    ELSE NoError

\* The switch of validateEdge over edge.Type, on the types of the two
\* endpoints.
validateEdgeSwitch(edgeType, fromType, toType) ==
    CASE edgeType = EdgeTypeDependsOn -> NoError
      [] edgeType = EdgeTypeProvisions ->
            IF fromType # NodeTypeWorkflow THEN EdgeTypeViolation
            ELSE IF toType # NodeTypeResource THEN EdgeTypeViolation
            ELSE NoError
      [] edgeType = EdgeTypeCreates ->
            IF fromType # NodeTypeWorkflow THEN EdgeTypeViolation ELSE NoError
      [] edgeType = EdgeTypeBindsTo ->
            IF toType # NodeTypeResource THEN EdgeTypeViolation ELSE NoError
      [] edgeType = EdgeTypeContains ->
            IF fromType # NodeTypeWorkflow THEN EdgeTypeViolation
            ELSE IF toType # NodeTypeStep THEN EdgeTypeViolation
            ELSE NoError
      [] edgeType = EdgeTypeConfigures ->
            IF fromType # NodeTypeStep THEN EdgeTypeViolation
            ELSE IF toType # NodeTypeResource THEN EdgeTypeViolation
            ELSE NoError
      [] OTHER -> EdgeTypeViolation

\* Mutant: the contains case forgets to check the source.
validateEdge_ContainsFromAny(g_nodes, edge) ==
    IF edge.type = EdgeTypeContains
    THEN IF g_nodes[edge.to].type # NodeTypeStep THEN EdgeTypeViolation ELSE NoError
    ELSE validateEdgeSwitch(edge.type, g_nodes[edge.from].type, g_nodes[edge.to].type)

validateEdge(g_nodes, edge) ==
    validateEdgeSwitch(edge.type, g_nodes[edge.from].type, g_nodes[edge.to].type)

AddEdgeStored(edge) == [from |-> edge.from, to |-> edge.to, type |-> edge.type]

\* Mutant: an edge that closes a cycle is refused.
AddEdgeErr_CycleCheck(g_nodes, g_edges, edge) ==
    IF edge = NilPtr THEN EdgeInvalid
    ELSE IF edge.id = "" THEN EdgeInvalid
    ELSE IF edge.id \in DOMAIN g_edges THEN DuplicateID
    ELSE IF edge.from \notin DOMAIN g_nodes THEN DanglingReference
    ELSE IF edge.to \notin DOMAIN g_nodes THEN DanglingReference
    ELSE IF validateEdge(g_nodes, edge) # NoError THEN validateEdge(g_nodes, edge)
    ELSE IF HasDirectedCycle(MapPut(g_edges, edge.id, AddEdgeStored(edge)))
         THEN CycleDetected
    ELSE NoError

\* Mutant: the to-node is not looked up.
AddEdgeErr_NoToCheck(g_nodes, g_edges, edge) ==
    IF edge = NilPtr THEN EdgeInvalid
    ELSE IF edge.id = "" THEN EdgeInvalid
    ELSE IF edge.id \in DOMAIN g_edges THEN DuplicateID
    ELSE IF edge.from \notin DOMAIN g_nodes THEN DanglingReference
    ELSE IF edge.to \notin DOMAIN g_nodes THEN NoError
    ELSE validateEdge(g_nodes, edge)

AddEdgeErr(g_nodes, g_edges, edge) ==
    IF edge = NilPtr THEN EdgeInvalid
    ELSE IF edge.id = "" THEN EdgeInvalid
    ELSE IF edge.id \in DOMAIN g_edges THEN DuplicateID
    ELSE IF edge.from \notin DOMAIN g_nodes THEN DanglingReference
    ELSE IF edge.to \notin DOMAIN g_nodes THEN DanglingReference
    ELSE validateEdge(g_nodes, edge)

AddEdge(edge) ==
    LET err == AddEdgeErr(nodes, edges, edge) IN
    /\ edges' = IF err = NoError
                THEN MapPut(edges, edge.id, AddEdgeStored(edge))
                ELSE edges
    /\ nodes' = nodes
    /\ op' = OpRec("AddEdge", err, IF edge = NilPtr THEN "" ELSE edge.id, {})
    /\ ret' = NilSlice
    /\ UNCHANGED <<trace, observers, frames>>

\* Mutant: only the edges that leave id are collected.
edgesToRemove_FromOnly(g_edges, id) ==
    {e \in DOMAIN g_edges : g_edges[e].from = id}

\* edgesToRemove of RemoveNode: every edge touching id.
edgesToRemove(g_edges, id) ==
    {e \in DOMAIN g_edges : g_edges[e].from = id \/ g_edges[e].to = id}

RemoveNode(id) ==
    /\ IF id \notin DOMAIN nodes
       THEN /\ op' = OpRec("RemoveNode", NotFound, id, {})
            /\ UNCHANGED <<nodes, edges>>
       ELSE /\ edges' = MapDelete(edges, edgesToRemove(edges, id))
            /\ nodes' = MapDelete(nodes, {id})
            /\ op' = OpRec("RemoveNode", NoError, id, {})
    /\ ret' = NilSlice
    /\ UNCHANGED <<trace, observers, frames>>

RemoveEdge(id) ==
    /\ IF id \notin DOMAIN edges
       THEN /\ op' = OpRec("RemoveEdge", NotFound, id, {})
            /\ UNCHANGED edges
       ELSE /\ edges' = MapDelete(edges, {id})
            /\ op' = OpRec("RemoveEdge", NoError, id, {})
    /\ nodes' = nodes
    /\ ret' = NilSlice
    /\ UNCHANGED <<trace, observers, frames>>

---------------------------------------------------------------------------
(* StateMachine *)

\* The contains edges whose target is stepID.
ParentEdges(g_edges, stepID) ==
    {e \in DOMAIN g_edges :
        g_edges[e].type = EdgeTypeContains /\ g_edges[e].to = stepID}

\* Mutant: only a parent that is running is failed.
FailParent_OnlyRunning(g_nodes, parentID) ==
    IF parentID \in DOMAIN g_nodes /\ g_nodes[parentID].state = NodeStateRunning
    THEN [g_nodes EXCEPT ![parentID].state = NodeStateFailed]
    ELSE g_nodes

\* What the parent found through contains edge e becomes.
FailParent(g_nodes, parentID) ==
    IF parentID \in DOMAIN g_nodes /\ g_nodes[parentID].state # NodeStateFailed
    THEN [g_nodes EXCEPT ![parentID].state = NodeStateFailed]
    ELSE g_nodes

\* The nodes reached by a contains edge from workflowID.
ContainedSteps(g_edges, workflowID) ==
    {g_edges[e].to : e \in {x \in DOMAIN g_edges :
        g_edges[x].type = EdgeTypeContains /\ g_edges[x].from = workflowID}}

\* Mutant: every contained node takes newState, whatever its state.
updateContainedSteps_AllChildren(g_nodes, g_edges, workflowID, newState) ==
    [n \in DOMAIN g_nodes |->
        IF n \in ContainedSteps(g_edges, workflowID)
        THEN [g_nodes[n] EXCEPT !.state = newState]
        ELSE g_nodes[n]]

\* Every contained node that is running takes newState.  newState is not
\* running, so a node met twice (parallel edges) is written once and the
\* iteration order does not matter.
updateContainedSteps(g_nodes, g_edges, workflowID, newState) ==
    [n \in DOMAIN g_nodes |->
        IF /\ n \in ContainedSteps(g_edges, workflowID)
           /\ g_nodes[n].state = NodeStateRunning
        THEN [g_nodes[n] EXCEPT !.state = newState]
        ELSE g_nodes[n]]

\* Mutant: the parent is failed as through UpdateNodeState, which applies
\* the downward rule to it.
propagateFailureToParent_Reenter(g_nodes, g_edges, stepID) ==
    IF ParentEdges(g_edges, stepID) = {}
    THEN {g_nodes}
    ELSE {updateContainedSteps(FailParent(g_nodes, g_edges[e].from), g_edges,
                               g_edges[e].from, NodeStateFailed) :
          e \in ParentEdges(g_edges, stepID)}

\* The loop returns at the first contains edge targeting stepID that the
\* iteration over g.Edges meets: any of them can be the first.  The result
\* is the set of node maps the call can leave.
propagateFailureToParent(g_nodes, g_edges, stepID) ==
    IF ParentEdges(g_edges, stepID) = {}
    THEN {g_nodes}
    ELSE {FailParent(g_nodes, g_edges[e].from) : e \in ParentEdges(g_edges, stepID)}

\* Mutant: the upward rule applies only to a step that was running.
UpwardApplies_OnlyFromRunning(node, newState) ==
    /\ node.type = NodeTypeStep
    /\ newState = NodeStateFailed
    /\ node.state = NodeStateRunning

\* The upward rule applies to a step that becomes failed.
UpwardApplies(node, newState) ==
    node.type = NodeTypeStep /\ newState = NodeStateFailed

\* The downward rule applies to a workflow that becomes failed or succeeded.
DownwardApplies(node, newState) ==
    /\ node.type = NodeTypeWorkflow
    /\ newState \in {NodeStateFailed, NodeStateSucceeded}

\* Mutant: a node that is failed or succeeded keeps its state.
StampTiming_TerminalSticks(node, newState, now) ==
    IF node.state \in {NodeStateFailed, NodeStateSucceeded}
    THEN node
    ELSE [node EXCEPT !.state = newState,
                      !.startedAt = IF newState = NodeStateRunning /\ @ = NilTime
                                    THEN now ELSE @]

\* The timing fields of node after it is given newState at time now:
\* StartedAt on the first entry into running, CompletedAt on the first
\* entry into succeeded or failed, Duration with CompletedAt when StartedAt
\* is set.
StampTiming(node, newState, now) ==
    LET started == IF newState = NodeStateRunning /\ node.startedAt = NilTime
                   THEN now ELSE node.startedAt
        completes == /\ newState \in {NodeStateSucceeded, NodeStateFailed}
                     /\ node.completedAt = NilTime
    IN [node EXCEPT !.state = newState,
                    !.startedAt = started,
                    !.completedAt = IF completes THEN now ELSE @,
                    !.duration = IF completes /\ started # NilTime
                                 THEN now - started ELSE @]

\* The node maps UpdateNodeState can leave for an existing node.
UpdateNodeStateResults(g_nodes, g_edges, nodeID, newState, now) ==
    LET assigned == [g_nodes EXCEPT ![nodeID] = StampTiming(@, newState, now)]
        upward   == IF UpwardApplies(g_nodes[nodeID], newState)
                    THEN propagateFailureToParent(assigned, g_edges, nodeID)
                    ELSE {assigned}
    IN {IF DownwardApplies(g_nodes[nodeID], newState)
        THEN updateContainedSteps(m, g_edges, nodeID, newState)
        ELSE m : m \in upward}

\* op.written: the nodes other than nodeID whose State the call assigned.
\* now is what time.Now() returns in the call: not before any stamp the
\* graph holds.
UpdateNodeState(nodeID, newState, now) ==
    /\ \A n \in DOMAIN nodes :
          now >= nodes[n].startedAt /\ now >= nodes[n].completedAt
    /\ IF nodeID \notin DOMAIN nodes
       THEN /\ op' = OpRec("UpdateNodeState", NotFound, nodeID, {})
            /\ nodes' = nodes
       ELSE \E m \in UpdateNodeStateResults(nodes, edges, nodeID, newState, now) :
            /\ nodes' = m
            /\ op' = OpRec("UpdateNodeState", NoError, nodeID,
                   {n \in (DOMAIN nodes) \ {nodeID} : m[n].state # nodes[n].state})
    /\ edges' = edges
    /\ ret' = NilSlice
    /\ UNCHANGED <<trace, observers, frames>>

---------------------------------------------------------------------------
(* TopologicalPlanner *)

\* Every order in which a range loop can visit the keys S of a map.
RECURSIVE Orders(_)
Orders(S) ==
    IF S = {}
    THEN {<< >>}
    ELSE UNION {{<<x>> \o rest : rest \in Orders(S \ {x})} : x \in S}

\* The direction rule: the node an edge makes wait (whose in-degree it
\* raises) and the node it waits for.
\* Mutant: depends-on edges are ordered like every other edge.
IsReversed_Never(edge) == FALSE

\* edge.Type == EdgeTypeDependsOn: the source follows the target.
IsReversed(edge) == edge.type = EdgeTypeDependsOn

EdgeSuccessor(edge) ==
    IF IsReversed(edge) THEN edge.from ELSE edge.to

EdgePredecessor(edge) ==
    IF IsReversed(edge) THEN edge.to ELSE edge.from

inDegree(g_nodes, g_edges) ==
    [n \in DOMAIN g_nodes |->
        Cardinality({e \in DOMAIN g_edges : EdgeSuccessor(g_edges[e]) = n})]

\* Mutant: the queue is seeded with every node.
SeedQueue_All(nodeOrder, deg) == nodeOrder

\* The queue seeded from the in-degree map visited in order nodeOrder.
SeedQueue(nodeOrder, deg) ==
    SelectSeq(nodeOrder, LAMBDA n : deg[n] = 0)

\* One pass of the inner loop's body for edge, the node just dequeued being
\* current: st is [deg, queue], the in-degrees and the queue so far.
VisitEdge(edge, current, st) ==
    IF EdgePredecessor(edge) # current
    THEN st
    ELSE [deg   |-> [n \in DOMAIN st.deg |->
                        IF n = EdgeSuccessor(edge) THEN st.deg[n] - 1 ELSE st.deg[n]],
          queue |-> IF st.deg[EdgeSuccessor(edge)] - 1 = 0
                    THEN Append(st.queue, EdgeSuccessor(edge))
                    ELSE st.queue]

\* The inner loop over g.Edges, visited in order edgeOrder.
RECURSIVE VisitEdges(_, _, _, _)
VisitEdges(g_edges, edgeOrder, current, st) ==
    IF edgeOrder = << >>
    THEN st
    ELSE VisitEdges(g_edges, Tail(edgeOrder), current,
                    VisitEdge(g_edges[Head(edgeOrder)], current, st))

\* The edges the inner loop does not skip for the node just dequeued.  The
\* others are passed over (continue) wherever the iteration meets them, so
\* only the order of these among themselves can change what the loop leaves.
EdgesFrom(g_edges, current) ==
    {e \in DOMAIN g_edges : EdgePredecessor(g_edges[e]) = current}

\* The outer loop: every result the loop can build from this queue.
RECURSIVE KahnLoop(_, _, _, _)
KahnLoop(g_edges, queue, deg, result) ==
    IF queue = << >>
    THEN {result}
    ELSE UNION {KahnLoop(g_edges, v.queue, v.deg, Append(result, Head(queue))) :
                v \in {VisitEdges(g_edges, eo, Head(queue),
                                  [deg |-> deg, queue |-> Tail(queue)]) :
                       eo \in Orders(EdgesFrom(g_edges, Head(queue)))}}

\* Mutant: only an empty result for a graph with nodes is taken for a cycle.
CycleCheck_EmptyOnly(result, g_nodes) ==
    IF Len(result) = 0 /\ Cardinality(DOMAIN g_nodes) # 0
    THEN [result |-> NilSlice, err |-> CycleDetected]
    ELSE [result |-> result, err |-> NoError]

\* len(result) != len(g.Nodes)
CycleCheck(result, g_nodes) ==
    IF Len(result) # Cardinality(DOMAIN g_nodes)
    THEN [result |-> NilSlice, err |-> CycleDetected]
    ELSE [result |-> result, err |-> NoError]

\* Every result the two loops can build: the queue is seeded from the
\* in-degree map visited in any order.
KahnResults(g_nodes, g_edges, deg) ==
    UNION {KahnLoop(g_edges, q, deg, << >>) :
           q \in {SeedQueue(no, deg) : no \in Orders(DOMAIN g_nodes)}}

\* Every (result, error) TopologicalSort can return on the graph; the
\* result is the sequence of the IDs of the nodes returned.
TopologicalSortOutcomes(g_nodes, g_edges) ==
    {CycleCheck(r, g_nodes) :
     r \in KahnResults(g_nodes, g_edges, inDegree(g_nodes, g_edges))}

TopologicalSort ==
    /\ \E o \in TopologicalSortOutcomes(nodes, edges) :
        /\ ret' = o.result
        /\ op' = OpRec("TopologicalSort", o.err, "", {})
    /\ UNCHANGED <<nodes, edges, trace, observers, frames>>

HasCycle ==
    /\ \E o \in TopologicalSortOutcomes(nodes, edges) :
        ret' = (o.err # NoError)
    /\ op' = OpRec("HasCycle", NoError, "", {})
    /\ UNCHANGED <<nodes, edges, trace, observers, frames>>

---------------------------------------------------------------------------
(* ExecutionEngine *)

StatusPending   == "pending"
StatusRunning   == "running"
StatusCompleted == "completed"
StatusFailed    == "failed"
StatusSkipped   == "skipped"

\* The errors ExecuteGraph returns beside CycleDetected.
LoadFailed      == "LoadFailed"
CreateRunFailed == "CreateRunFailed"

\* The errors of the node handlers, kept in NodeExecution.Error.
WorkflowFailed    == "workflow execution failed"
ProvisionFailed   == "resource provisioning failed"
CreationFailed    == "resource creation failed"
UnknownNodeType   == "unknown node type"

\* The errorMessage of the terminal UpdateGraphRun, and the nil one.
NilMessage        == "nil"
SomeNodesFailed   == "Some nodes failed to execute"

\* Graph.Version of the loaded graph, as NewGraph sets it.
GraphVersion == "1"

\* The Repository calls of ExecuteGraph that the environment can fail.
RepoLoadGraph      == "LoadGraph"
RepoCreateGraphRun == "CreateGraphRun"
RepoUpdateRunning  == "UpdateGraphRun/running"
RepoUpdateTerminal == "UpdateGraphRun/terminal"
RepoCalls ==
    {RepoLoadGraph, RepoCreateGraphRun, RepoUpdateRunning, RepoUpdateTerminal}

\* A runner call by its method and arguments, and an entry of the trace:
\* the call with what it returned ("" for nil).
RunnerCall(method, a, b) == <<method, a, b>>
Called(method, a, b, result) == <<method, a, b, result>>
RepoResult(call, repoFails) == IF call \in repoFails THEN "error" ELSE ""

\* What GetDependencies can return: the slice, and the error ("" for nil).
\* The slice holds one entry for every edge of the set, in the order the
\* range over g.Edges meets them, which is any order.
DependencyOutcomes(g_nodes, g_edges, nodeID, found) ==
    IF nodeID \notin DOMAIN g_nodes
    THEN {[result |-> NilSlice, err |-> NotFound]}
    ELSE {[result |-> [i \in 1..Len(o) |-> o[i][2]], err |-> NoError] :
          o \in Orders({<<e, found[e]>> : e \in DOMAIN found})}

\* Mutant: every node joined to nodeID by an edge counts as a dependency.
GetDependencies_Neighbours(g_nodes, g_edges, nodeID) ==
    DependencyOutcomes(g_nodes, g_edges, nodeID,
        [e \in {x \in DOMAIN g_edges :
                  g_edges[x].from = nodeID \/ g_edges[x].to = nodeID} |->
            IF g_edges[e].from = nodeID THEN g_edges[e].to ELSE g_edges[e].from])

\* GetDependencies: an error for a node that is not in the graph; else the
\* targets, where they exist, of the depends-on edges that leave nodeID,
\* one entry for every such edge.
GetDependencies(g_nodes, g_edges, nodeID) ==
    DependencyOutcomes(g_nodes, g_edges, nodeID,
        [e \in {x \in DOMAIN g_edges :
                  /\ g_edges[x].type = EdgeTypeDependsOn
                  /\ g_edges[x].from = nodeID
                  /\ g_edges[x].to \in DOMAIN g_nodes} |-> g_edges[e].to])

\* Mutant: the dependencies are not looked at.
shouldExecuteNode_Always(g_nodes, g_edges, executions, nodeID) ==
    \E d \in GetDependencies(g_nodes, g_edges, nodeID) : d.err = NoError

\* Mutant: a dependency that was skipped also holds the node back.
shouldExecuteNode_SkipSpreads(g_nodes, g_edges, executions, nodeID) ==
    \E d \in GetDependencies(g_nodes, g_edges, nodeID) :
        /\ d.err = NoError
        /\ \A i \in 1..Len(d.result) :
              d.result[i] \in DOMAIN executions =>
                  executions[d.result[i]].status \notin {StatusFailed, StatusSkipped}

\* shouldExecuteNode: false when GetDependencies fails or a dependency has
\* an execution that failed.  Every order of the slice gives the same
\* answer.
shouldExecuteNode(g_nodes, g_edges, executions, nodeID) ==
    \E d \in GetDependencies(g_nodes, g_edges, nodeID) :
        /\ d.err = NoError
        /\ \A i \in 1..Len(d.result) :
              d.result[i] \in DOMAIN executions =>
                  executions[d.result[i]].status # StatusFailed

\* The edges of executeWorkflow's loop that lead to a runner call.
WorkflowEdges(g_nodes, g_edges, nodeID) ==
    {e \in DOMAIN g_edges :
        /\ g_edges[e].from = nodeID
        /\ g_edges[e].to \in DOMAIN g_nodes
        /\ g_edges[e].type \in {EdgeTypeProvisions, EdgeTypeCreates}}

\* Mutant: the loop goes on after a runner call that fails and returns
\* what the last call returned.
RECURSIVE RunEdges_LastDecides(_, _, _, _, _)
RunEdges_LastDecides(g_edges, nodeID, edgeOrder, runnerFails, calls) ==
    IF edgeOrder = << >>
    THEN [err |-> "", calls |-> calls]
    ELSE LET edge   == g_edges[Head(edgeOrder)]
             method == IF edge.type = EdgeTypeProvisions
                       THEN "ProvisionResource" ELSE "CreateResource"
             fails  == RunnerCall(method, nodeID, edge.to) \in runnerFails
             rest   == RunEdges_LastDecides(g_edges, nodeID, Tail(edgeOrder), runnerFails,
                          Append(calls, Called(method, nodeID, edge.to,
                                               IF fails THEN "error" ELSE "")))
         IN IF fails /\ Tail(edgeOrder) = << >>
            THEN [err   |-> IF edge.type = EdgeTypeProvisions
                            THEN ProvisionFailed ELSE CreationFailed,
                  calls |-> rest.calls]
            ELSE rest

\* The loop of executeWorkflow over the edges in edgeOrder: it returns at
\* the first runner call that fails.
RECURSIVE RunEdges(_, _, _, _, _)
RunEdges(g_edges, nodeID, edgeOrder, runnerFails, calls) ==
    IF edgeOrder = << >>
    THEN [err |-> "", calls |-> calls]
    ELSE LET edge   == g_edges[Head(edgeOrder)]
             method == IF edge.type = EdgeTypeProvisions
                       THEN "ProvisionResource" ELSE "CreateResource"
             fails  == RunnerCall(method, nodeID, edge.to) \in runnerFails
         IN IF fails
            THEN [err   |-> IF edge.type = EdgeTypeProvisions
                            THEN ProvisionFailed ELSE CreationFailed,
                  calls |-> Append(calls, Called(method, nodeID, edge.to, "error"))]
            ELSE RunEdges(g_edges, nodeID, Tail(edgeOrder), runnerFails,
                          Append(calls, Called(method, nodeID, edge.to, "")))

\* Mutant: the edges are walked also when RunWorkflow returned an error.
executeWorkflow_EdgesAnyway(g_nodes, g_edges, nodeID, runnerFails) ==
    LET failed == RunnerCall("RunWorkflow", nodeID, "") \in runnerFails
        first  == <<Called("RunWorkflow", nodeID, "",
                           IF failed THEN "error" ELSE "")>>
    IN {[err   |-> IF failed THEN WorkflowFailed ELSE r.err,
         calls |-> r.calls] :
        r \in {RunEdges(g_edges, nodeID, edgeOrder, runnerFails, first) :
               edgeOrder \in Orders(WorkflowEdges(g_nodes, g_edges, nodeID))}}

\* executeWorkflow: every result the iteration over g.Edges can give.
executeWorkflow(g_nodes, g_edges, nodeID, runnerFails) ==
    IF RunnerCall("RunWorkflow", nodeID, "") \in runnerFails
    THEN {[err   |-> WorkflowFailed,
           calls |-> <<Called("RunWorkflow", nodeID, "", "error")>>]}
    ELSE {RunEdges(g_edges, nodeID, edgeOrder, runnerFails,
                   <<Called("RunWorkflow", nodeID, "", "")>>) :
          edgeOrder \in Orders(WorkflowEdges(g_nodes, g_edges, nodeID))}

\* executeNode: the switch over node.Type.
executeNode(g_nodes, g_edges, nodeID, runnerFails) ==
    CASE g_nodes[nodeID].type = NodeTypeWorkflow ->
            executeWorkflow(g_nodes, g_edges, nodeID, runnerFails)
      [] g_nodes[nodeID].type = NodeTypeSpec -> {[err |-> "", calls |-> << >>]}
      [] g_nodes[nodeID].type = NodeTypeResource -> {[err |-> "", calls |-> << >>]}
      [] OTHER -> {[err |-> UnknownNodeType, calls |-> << >>]}

\* Mutant: a node that is skipped keeps the status it has.
NodeSkipped_StaysPending(st, nodeID) == st

\* The loop body for a node that is skipped.
NodeSkipped(st, nodeID) ==
    [executions |-> [n \in DOMAIN st.executions |->
                        IF n = nodeID
                        THEN [status |-> StatusSkipped, error |-> ""]
                        ELSE st.executions[n]],
     success    |-> st.success,
     trace      |-> st.trace]

\* Mutant: the handler's error is not kept in the NodeExecution.
NodeExecuted_DropsError(st, nodeID, r) ==
    [executions |-> [n \in DOMAIN st.executions |->
                        IF n = nodeID
                        THEN [status |-> IF r.err = "" THEN StatusCompleted
                                         ELSE StatusFailed,
                              error  |-> ""]
                        ELSE st.executions[n]],
     success    |-> st.success /\ r.err = "",
     trace      |-> st.trace \o <<Called("executeNode", nodeID, "", r.err)>>
                        \o r.calls]

\* Mutant: executionSuccess is what the last handler returned.
NodeExecuted_LastDecides(st, nodeID, r) ==
    [executions |-> [n \in DOMAIN st.executions |->
                        IF n = nodeID
                        THEN [status |-> IF r.err = "" THEN StatusCompleted
                                         ELSE StatusFailed,
                              error  |-> r.err]
                        ELSE st.executions[n]],
     success    |-> r.err = "",
     trace      |-> st.trace \o <<Called("executeNode", nodeID, "", r.err)>>
                        \o r.calls]

\* The loop body for a node whose handler returned r.
NodeExecuted(st, nodeID, r) ==
    [executions |-> [n \in DOMAIN st.executions |->
                        IF n = nodeID
                        THEN [status |-> IF r.err = "" THEN StatusCompleted
                                         ELSE StatusFailed,
                              error  |-> r.err]
                        ELSE st.executions[n]],
     success    |-> st.success /\ r.err = "",
     trace      |-> st.trace \o <<Called("executeNode", nodeID, "", r.err)>>
                        \o r.calls]

\* Mutant: the loop takes the sorted nodes from the last to the first.
RECURSIVE WalkNodes_LastFirst(_, _, _, _, _)
WalkNodes_LastFirst(g_nodes, g_edges, order, st, runnerFails) ==
    IF order = << >>
    THEN {st}
    ELSE LET last == order[Len(order)]
             rest == SubSeq(order, 1, Len(order) - 1)
         IN IF ~shouldExecuteNode(g_nodes, g_edges, st.executions, last)
            THEN WalkNodes_LastFirst(g_nodes, g_edges, rest,
                                     NodeSkipped(st, last), runnerFails)
            ELSE UNION {WalkNodes_LastFirst(g_nodes, g_edges, rest,
                                            NodeExecuted(st, last, r), runnerFails) :
                        r \in executeNode(g_nodes, g_edges, last, runnerFails)}

\* The loop of ExecuteGraph over the sorted nodes; st holds
\* plan.Executions, executionSuccess and the calls made so far.
RECURSIVE WalkNodes(_, _, _, _, _)
WalkNodes(g_nodes, g_edges, order, st, runnerFails) ==
    IF order = << >>
    THEN {st}
    ELSE IF ~shouldExecuteNode(g_nodes, g_edges, st.executions, Head(order))
    THEN WalkNodes(g_nodes, g_edges, Tail(order),
                   NodeSkipped(st, Head(order)), runnerFails)
    ELSE UNION {WalkNodes(g_nodes, g_edges, Tail(order),
                          NodeExecuted(st, Head(order), r), runnerFails) :
                r \in executeNode(g_nodes, g_edges, Head(order), runnerFails)}

\* plan.Status after the loop.
PlanStatus(st) == IF st.success THEN StatusCompleted ELSE StatusFailed

\* Mutant: an error of the terminal UpdateGraphRun is returned instead of
\* the plan.
FinishPlan_UpdateAborts(order, st, repoFails) ==
    LET calls == Append(st.trace,
                        Called("UpdateGraphRun", PlanStatus(st),
                               IF st.success THEN NilMessage ELSE SomeNodesFailed,
                               RepoResult(RepoUpdateTerminal, repoFails)))
    IN IF RepoUpdateTerminal \in repoFails
       THEN [plan |-> NilPtr, err |-> "UpdateRunFailed", trace |-> calls]
       ELSE [plan  |-> [status     |-> PlanStatus(st),
                        executions |-> st.executions,
                        order      |-> order],
             err   |-> NoError,
             trace |-> calls]

\* The end of ExecuteGraph: the plan and the terminal UpdateGraphRun, whose
\* error is logged and dropped.
FinishPlan(order, st, repoFails) ==
    [plan  |-> [status     |-> PlanStatus(st),
                executions |-> st.executions,
                order      |-> order],
     err   |-> NoError,
     trace |-> Append(st.trace,
                      Called("UpdateGraphRun", PlanStatus(st),
                             IF st.success THEN NilMessage ELSE SomeNodesFailed,
                             RepoResult(RepoUpdateTerminal, repoFails)))]

\* ExecuteGraph without a plan.
Aborted(err, calls) == [plan |-> NilPtr, err |-> err, trace |-> calls]

\* Mutant: the run record is created before the graph is sorted.
ExecuteSorted_CreateFirst(g_nodes, g_edges, sorted, env) ==
    IF RepoCreateGraphRun \in env.repoFails
    THEN {Aborted(CreateRunFailed,
                  <<Called("LoadGraph", "", "", ""),
                    Called("CreateGraphRun", "", GraphVersion, "error")>>)}
    ELSE IF sorted.err # NoError
    THEN {Aborted(CycleDetected,
                  <<Called("LoadGraph", "", "", ""),
                    Called("CreateGraphRun", "", GraphVersion, "")>>)}
    ELSE {FinishPlan(sorted.result, st, env.repoFails) :
          st \in WalkNodes(g_nodes, g_edges, sorted.result,
                 [executions |-> [n \in DOMAIN g_nodes |->
                                     [status |-> StatusPending, error |-> ""]],
                  success    |-> TRUE,
                  trace      |-> <<Called("LoadGraph", "", "", ""),
                                   Called("CreateGraphRun", "", GraphVersion, ""),
                                   Called("UpdateGraphRun", StatusRunning, NilMessage,
                                          RepoResult(RepoUpdateRunning, env.repoFails))>>],
                 env.runnerFails)}

\* Mutant: the run record is not updated to running before the walk.
ExecuteSorted_NoRunningUpdate(g_nodes, g_edges, sorted, env) ==
    IF sorted.err # NoError
    THEN {Aborted(CycleDetected, <<Called("LoadGraph", "", "", "")>>)}
    ELSE IF RepoCreateGraphRun \in env.repoFails
    THEN {Aborted(CreateRunFailed,
                  <<Called("LoadGraph", "", "", ""),
                    Called("CreateGraphRun", "", GraphVersion, "error")>>)}
    ELSE {FinishPlan(sorted.result, st, env.repoFails) :
          st \in WalkNodes(g_nodes, g_edges, sorted.result,
                 [executions |-> [n \in {sorted.result[i] : i \in 1..Len(sorted.result)} |->
                                     [status |-> StatusPending, error |-> ""]],
                  success    |-> TRUE,
                  trace      |-> <<Called("LoadGraph", "", "", ""),
                                   Called("CreateGraphRun", "", GraphVersion, "")>>],
                 env.runnerFails)}

\* ExecuteGraph from the result sorted of TopologicalSort on the loaded
\* graph.  The error of UpdateGraphRun(running) is logged and dropped.
ExecuteSorted(g_nodes, g_edges, sorted, env) ==
    IF sorted.err # NoError
    THEN {Aborted(CycleDetected, <<Called("LoadGraph", "", "", "")>>)}
    ELSE IF RepoCreateGraphRun \in env.repoFails
    THEN {Aborted(CreateRunFailed,
                  <<Called("LoadGraph", "", "", ""),
                    Called("CreateGraphRun", "", GraphVersion, "error")>>)}
    ELSE {FinishPlan(sorted.result, st, env.repoFails) :
          st \in WalkNodes(g_nodes, g_edges, sorted.result,
                 [executions |-> [n \in {sorted.result[i] : i \in 1..Len(sorted.result)} |->
                                     [status |-> StatusPending, error |-> ""]],
                  success    |-> TRUE,
                  trace      |-> <<Called("LoadGraph", "", "", ""),
                                   Called("CreateGraphRun", "", GraphVersion, ""),
                                   Called("UpdateGraphRun", StatusRunning, NilMessage,
                                          RepoResult(RepoUpdateRunning, env.repoFails))>>],
                 env.runnerFails)}

\* Every result of ExecuteGraph on the graph the Repository holds, in the
\* environment env: the Repository calls that fail and the runner calls
\* that fail.
ExecuteGraphOutcomes(g_nodes, g_edges, env) ==
    IF RepoLoadGraph \in env.repoFails
    THEN {Aborted(LoadFailed, <<Called("LoadGraph", "", "", "error")>>)}
    ELSE UNION {ExecuteSorted(g_nodes, g_edges, sorted, env) :
                sorted \in TopologicalSortOutcomes(g_nodes, g_edges)}

\* ret is the plan (NilPtr for nil), op.err the error.
ExecuteGraph(env) ==
    /\ \E o \in ExecuteGraphOutcomes(nodes, edges, env) :
        /\ ret' = o.plan
        /\ op' = OpRec("ExecuteGraph", o.err, "", {})
        /\ trace' = o.trace
    /\ UNCHANGED <<nodes, edges, observers, frames>>

---------------------------------------------------------------------------
(* ObservableGraph *)

\* A method of the ObservableGraph runs in the goroutine that called it.
\* Graph changes take no lock; each notify function holds og.mu for reading
\* while it ranges over og.observers, AddObserver and RemoveObserver hold
\* it for writing.  A call is modelled by its steps: the read of the old
\* state, the reads and writes of the embedded Graph's UpdateNodeState and
\* AddNode one at a time (no lock is held there, so the calls of two
\* goroutines interleave between any two of them), and one step for each
\* observer a notify function calls.  trace records what happened, in
\* order.

\* The state read for a node that g.Nodes does not hold.
NoState == ""

\* The frame of a goroutine that is in no call.
\* now, dur, at and todo are the locals of Graph.UpdateNodeState (what
\* time.Now() returned, the duration computed, the node about to be
\* written, the contains edges the loop has yet to visit); node is the
\* argument of AddNode.
Idle ==
    [pc |-> "idle", name |-> "", id |-> "", old |-> NoState, new |-> "",
     k |-> 0, tag |-> 0, now |-> NilTime, dur |-> NilTime, at |-> "",
     todo |-> {}, node |-> NilPtr]

\* Where a goroutine is inside Graph.UpdateNodeState.
GraphPcs ==
    {"apply", "ifStartedAt", "setStartedAt", "ifCompletedAt", "setCompletedAt",
     "ifDuration", "setDuration", "ifParent", "setParent", "ifChild", "setChild"}

NotifyPcs ==
    {"notifyNodeStateChanged", "notifyNodeUpdated", "notifyEdgeAdded",
     "notifyGraphUpdated"}

\* og.mu is locked for reading: a goroutine is inside the loop of a notify
\* function.
RLocked == \E g \in DOMAIN frames : frames[g].pc \in NotifyPcs /\ frames[g].k > 1

\* The entries of the trace: a call and its return, a transition that
\* Graph.UpdateNodeState applied to the node it was called for, and the
\* callbacks of an observer with their arguments.  tag is the place in the
\* trace of the transition a state change notification reports.  A state
\* written by propagation has an entry of its own.
CallEntry(g, name, id) == <<"call", name, id, g>>
ReturnEntry(g, name, err) == <<"return", name, err, g>>
AppliedEntry(g, id, old, new) == <<"applied", id, old, new, g>>
\* The write of the State of a parent or a child by the upward or the
\* downward rule.
PropagatedEntry(g, id, old, new) == <<"propagated", id, old, new, g>>

\* Mutant: the state change is reported with waiting as the old state.
Delivery_OldIsWaiting(frame, observer) ==
    CASE frame.pc = "notifyNodeStateChanged" ->
            <<"OnNodeStateChanged", observer, frame.id, NodeStateWaiting,
              frame.new, frame.tag>>
      [] frame.pc = "notifyNodeUpdated" -> <<"OnNodeUpdated", observer, frame.id>>
      [] frame.pc = "notifyEdgeAdded" -> <<"OnEdgeAdded", observer, frame.id>>
      [] frame.pc = "notifyGraphUpdated" -> <<"OnGraphUpdated", observer>>

\* Mutant: the state change is reported with the two states exchanged.
Delivery_StatesExchanged(frame, observer) ==
    CASE frame.pc = "notifyNodeStateChanged" ->
            <<"OnNodeStateChanged", observer, frame.id, frame.new, frame.old,
              frame.tag>>
      [] frame.pc = "notifyNodeUpdated" -> <<"OnNodeUpdated", observer, frame.id>>
      [] frame.pc = "notifyEdgeAdded" -> <<"OnEdgeAdded", observer, frame.id>>
      [] frame.pc = "notifyGraphUpdated" -> <<"OnGraphUpdated", observer>>

Delivery(frame, observer) ==
    CASE frame.pc = "notifyNodeStateChanged" ->
            <<"OnNodeStateChanged", observer, frame.id, frame.old, frame.new,
              frame.tag>>
      [] frame.pc = "notifyNodeUpdated" -> <<"OnNodeUpdated", observer, frame.id>>
      [] frame.pc = "notifyEdgeAdded" -> <<"OnEdgeAdded", observer, frame.id>>
      [] frame.pc = "notifyGraphUpdated" -> <<"OnGraphUpdated", observer>>

\* Mutant: AddEdge returns after notifyEdgeAdded.
NextNotify_EdgeOnly(frame) ==
    CASE frame.pc = "notifyNodeStateChanged" -> "notifyNodeUpdated"
      [] OTHER -> "return"

\* The notify function a method calls after the one at frame.pc.
NextNotify(frame) ==
    CASE frame.pc = "notifyNodeStateChanged" -> "notifyNodeUpdated"
      [] frame.pc = "notifyEdgeAdded" -> "notifyGraphUpdated"
      [] OTHER -> "return"

\* The number of calls made so far, and the guard that bounds it.
CallsMade == Cardinality({i \in 1..Len(trace) : trace[i][1] = "call"})
CanCall(g) == frames[g].pc = "idle"

\* A method returns err before it notified anybody.
ReturnsError(g, name, id, err) ==
    /\ op' = OpRec(name, err, id, {})
    /\ ret' = NilSlice
    /\ trace' = trace \o <<CallEntry(g, name, id), ReturnEntry(g, name, err)>>
    /\ frames' = frames

\* A method goes on to its first notify function.
Notifies(g, name, id, pc) ==
    /\ frames' = [frames EXCEPT ![g] =
                    [Idle EXCEPT !.pc = pc, !.name = name, !.id = id, !.k = 1]]
    /\ trace' = Append(trace, CallEntry(g, name, id))
    /\ UNCHANGED <<op, ret>>

AddObserver(g, observer) ==
    /\ CanCall(g)
    /\ ~RLocked
    /\ observers' = Append(observers, observer)
    /\ op' = OpRec("AddObserver", NoError, observer, {})
    /\ ret' = NilSlice
    /\ trace' = trace \o <<CallEntry(g, "AddObserver", observer),
                           ReturnEntry(g, "AddObserver", NoError)>>
    /\ UNCHANGED <<nodes, edges, frames>>

\* Mutant: every entry equal to the observer is taken out.
RemoveFirst_All(obs, observer) ==
    SelectSeq(obs, LAMBDA o : o # observer)

\* The loop of RemoveObserver: the first entry equal to the observer is
\* taken out of the slice.
RemoveFirst(obs, observer) ==
    IF \E i \in 1..Len(obs) : obs[i] = observer
    THEN LET i == CHOOSE j \in 1..Len(obs) :
                      /\ obs[j] = observer
                      /\ \A h \in 1..(j - 1) : obs[h] # observer
         IN SubSeq(obs, 1, i - 1) \o SubSeq(obs, i + 1, Len(obs))
    ELSE obs

RemoveObserver(g, observer) ==
    /\ CanCall(g)
    /\ ~RLocked
    /\ observers' = RemoveFirst(observers, observer)
    /\ op' = OpRec("RemoveObserver", NoError, observer, {})
    /\ ret' = NilSlice
    /\ trace' = trace \o <<CallEntry(g, "RemoveObserver", observer),
                           ReturnEntry(g, "RemoveObserver", NoError)>>
    /\ UNCHANGED <<nodes, edges, frames>>

\* ObservableGraph.UpdateNodeState up to its call of Graph.UpdateNodeState:
\* the node is looked up and its state read.  For a node that is not there
\* the method returns what Graph.UpdateNodeState returns.
ObservableUpdateNodeState(g, nodeID, newState) ==
    /\ CanCall(g)
    /\ frames' = [frames EXCEPT ![g] =
                    [Idle EXCEPT !.pc = "apply", !.name = "UpdateNodeState",
                                 !.id = nodeID, !.new = newState,
                                 !.old = IF nodeID \in DOMAIN nodes
                                         THEN nodes[nodeID].state ELSE NoState]]
    /\ trace' = Append(trace, CallEntry(g, "UpdateNodeState", nodeID))
    /\ UNCHANGED <<nodes, edges, observers, op, ret>>

\* Mutant: the state change is notified also when the state is the same.
FirstNotify_Always(oldState, newState) == "notifyNodeStateChanged"

\* The notify function ObservableGraph.UpdateNodeState calls first.
FirstNotify(oldState, newState) ==
    IF oldState # newState THEN "notifyNodeStateChanged" ELSE "notifyNodeUpdated"

\* One step of Graph.UpdateNodeState in a goroutine whose frame is f: the
\* frame and the node map it leaves, and the error when it returns one.
\* A step is one read or one write of the graph:
\*   apply           GetNode, node.State = newState, time.Now()
\*   ifStartedAt     node.StartedAt == nil         setStartedAt    the write
\*   ifCompletedAt   node.CompletedAt == nil       setCompletedAt  the write
\*   ifDuration      node.StartedAt != nil, Sub    setDuration     the write
\*   ifParent        the first contains edge that targets the node in the
\*                   range over g.Edges (any of them), the parent's State
\*   setParent       parentNode.State = failed
\*   ifChild         the next contains edge of the range, the child's State
\*   setChild        stepNode.State = newState
\* At pc "return" the method returns: at once when the ObservableGraph had
\* not found the node, else after the notify functions.
UpdateNodeStateSteps(f, g_nodes, g_edges, now) ==
    LET node == g_nodes[f.id]
        Out(f2, m) == [frame |-> f2, nodes |-> m, err |-> NoError]
        NotifyPc(b) == IF b.old = NoState THEN "return"
                       ELSE FirstNotify(b.old, b.new)
        Children(b, todo) ==
            [b EXCEPT !.pc = IF todo = {} THEN NotifyPc(b) ELSE "ifChild",
                      !.todo = todo, !.at = ""]
        Downward(b) ==
            IF DownwardApplies(node, b.new)
            THEN Children(b, {e \in DOMAIN g_edges :
                                /\ g_edges[e].type = EdgeTypeContains
                                /\ g_edges[e].from = b.id})
            ELSE [b EXCEPT !.pc = NotifyPc(b), !.at = ""]
        Upward(b) ==
            IF UpwardApplies(node, b.new)
            THEN [b EXCEPT !.pc = "ifParent"]
            ELSE Downward(b)
        Timing(b) ==
            IF b.new = NodeStateRunning THEN [b EXCEPT !.pc = "ifStartedAt"]
            ELSE IF b.new \in {NodeStateSucceeded, NodeStateFailed}
            THEN [b EXCEPT !.pc = "ifCompletedAt"]
            ELSE Upward(b)
    IN
    CASE f.pc = "apply" ->
            IF f.id \notin DOMAIN g_nodes
            THEN {[frame |-> [f EXCEPT !.pc = "return"], nodes |-> g_nodes,
                   err |-> NotFound]}
            ELSE {Out(Timing([f EXCEPT !.now = now, !.k = 1]),
                      [g_nodes EXCEPT ![f.id].state = f.new])}
      [] f.pc = "ifStartedAt" ->
            {Out(IF node.startedAt = NilTime
                 THEN [f EXCEPT !.pc = "setStartedAt"] ELSE Upward(f), g_nodes)}
      [] f.pc = "setStartedAt" ->
            {Out(Upward(f), [g_nodes EXCEPT ![f.id].startedAt = f.now])}
      [] f.pc = "ifCompletedAt" ->
            {Out(IF node.completedAt = NilTime
                 THEN [f EXCEPT !.pc = "setCompletedAt"] ELSE Upward(f), g_nodes)}
      [] f.pc = "setCompletedAt" ->
            {Out([f EXCEPT !.pc = "ifDuration"],
                 [g_nodes EXCEPT ![f.id].completedAt = f.now])}
      [] f.pc = "ifDuration" ->
            {Out(IF node.startedAt # NilTime
                 THEN [f EXCEPT !.pc = "setDuration",
                                !.dur = node.completedAt - node.startedAt]
                 ELSE Upward(f), g_nodes)}
      [] f.pc = "setDuration" ->
            {Out(Upward(f), [g_nodes EXCEPT ![f.id].duration = f.dur])}
      [] f.pc = "ifParent" ->
            IF ParentEdges(g_edges, f.id) = {}
            THEN {Out(Downward(f), g_nodes)}
            ELSE {Out(IF /\ g_edges[e].from \in DOMAIN g_nodes
                         /\ g_nodes[g_edges[e].from].state # NodeStateFailed
                      THEN [f EXCEPT !.pc = "setParent", !.at = g_edges[e].from]
                      ELSE Downward(f), g_nodes) :
                  e \in ParentEdges(g_edges, f.id)}
      [] f.pc = "setParent" ->
            {Out(Downward(f), [g_nodes EXCEPT ![f.at].state = NodeStateFailed])}
      [] f.pc = "ifChild" ->
            {Out(IF /\ g_edges[e].to \in DOMAIN g_nodes
                    /\ g_nodes[g_edges[e].to].state = NodeStateRunning
                 THEN [f EXCEPT !.pc = "setChild", !.at = g_edges[e].to,
                                !.todo = f.todo \ {e}]
                 ELSE Children(f, f.todo \ {e}), g_nodes) :
             e \in f.todo}
      [] f.pc = "setChild" ->
            {Out(Children(f, f.todo), [g_nodes EXCEPT ![f.at].state = f.new])}

\* The call of Graph.UpdateNodeState, one step at a time.  now is what
\* time.Now() returns in the call: not before any stamp the graph holds.
\* The transition the call applies is entered in the trace when node.State
\* is written.
ApplyUpdateNodeState(g, now) ==
    LET f == frames[g] IN
    /\ f.pc \in GraphPcs
    /\ f.pc = "apply" =>
          \A n \in DOMAIN nodes :
              now >= nodes[n].startedAt /\ now >= nodes[n].completedAt
    /\ \E o \in UpdateNodeStateSteps(f, nodes, edges, now) :
          LET applied == f.pc = "apply" /\ o.err = NoError
              entries == IF applied
                         THEN <<AppliedEntry(g, f.id, nodes[f.id].state, f.new)>>
                         ELSE IF f.pc \in {"setParent", "setChild"}
                         THEN <<PropagatedEntry(g, f.at, nodes[f.at].state,
                                                o.nodes[f.at].state)>>
                         ELSE << >>
          IN
          /\ nodes' = o.nodes
          /\ IF o.frame.pc = "return"
             THEN /\ frames' = [frames EXCEPT ![g] = Idle]
                  /\ trace' = trace \o entries
                                \o <<ReturnEntry(g, f.name, o.err)>>
                  /\ op' = OpRec(f.name, o.err, f.id, {})
                  /\ ret' = NilSlice
             ELSE /\ frames' = [frames EXCEPT ![g] =
                                  IF applied
                                  THEN [o.frame EXCEPT !.tag = Len(trace) + 1]
                                  ELSE o.frame]
                  /\ trace' = trace \o entries
                  /\ UNCHANGED <<op, ret>>
    /\ UNCHANGED <<edges, observers>>

\* AddNode up to the assignment g.Nodes[node.ID] = node: the checks, and
\* the map write begins.
ObservableAddNode(g, node) ==
    LET err == AddNodeErr(nodes, node)
        id  == IF node = NilPtr THEN "" ELSE node.id
    IN
    /\ CanCall(g)
    /\ IF err # NoError
       THEN ReturnsError(g, "AddNode", id, err)
       ELSE /\ frames' = [frames EXCEPT ![g] =
                            [Idle EXCEPT !.pc = "mapassign", !.name = "AddNode",
                                         !.id = id, !.node = node]]
            /\ trace' = Append(trace, CallEntry(g, "AddNode", id))
            /\ UNCHANGED <<op, ret>>
    /\ UNCHANGED <<nodes, edges, observers>>

\* The map write of AddNode ends: g.Nodes holds the node, and the method
\* goes on to notifyGraphUpdated.
MapAssign(g) ==
    LET f == frames[g] IN
    /\ f.pc = "mapassign"
    /\ nodes' = MapPut(nodes, f.id, AddNodeStored(f.node))
    /\ frames' = [frames EXCEPT ![g] =
                    [f EXCEPT !.pc = "notifyGraphUpdated", !.k = 1,
                              !.node = NilPtr]]
    /\ UNCHANGED <<edges, observers, op, ret, trace>>

\* Goroutine g reads g.Nodes (GetNode) while the map write of another
\* goroutine is under way.  The runtime may detect it and end the program
\* with "fatal error: concurrent map read and map write"; when it does not,
\* the read goes on as a step of its own.
ConcurrentMapAccess(g) ==
    /\ IF frames[g].pc = "ifParent"
       THEN ParentEdges(edges, frames[g].id) # {}
       ELSE frames[g].pc \in {"apply", "ifChild"}
    /\ \E h \in DOMAIN frames \ {g} : frames[h].pc = "mapassign"
    /\ frames' = [h \in DOMAIN frames |-> [Idle EXCEPT !.pc = "fatal"]]
    /\ op' = OpRec("fatal error", "concurrent map read and map write",
                   frames[g].id, {})
    /\ UNCHANGED <<nodes, edges, observers, ret, trace>>

ObservableAddEdge(g, edge) ==
    LET err == AddEdgeErr(nodes, edges, edge)
        id  == IF edge = NilPtr THEN "" ELSE edge.id
    IN
    /\ CanCall(g)
    /\ IF err # NoError
       THEN /\ ReturnsError(g, "AddEdge", id, err)
            /\ edges' = edges
       ELSE /\ edges' = MapPut(edges, edge.id, AddEdgeStored(edge))
            /\ Notifies(g, "AddEdge", id, "notifyEdgeAdded")
    /\ UNCHANGED <<nodes, observers>>

ObservableRemoveNode(g, id) ==
    /\ CanCall(g)
    /\ IF id \notin DOMAIN nodes
       THEN /\ ReturnsError(g, "RemoveNode", id, NotFound)
            /\ UNCHANGED <<nodes, edges>>
       ELSE /\ edges' = MapDelete(edges, edgesToRemove(edges, id))
            /\ nodes' = MapDelete(nodes, {id})
            /\ Notifies(g, "RemoveNode", id, "notifyGraphUpdated")
    /\ UNCHANGED observers

ObservableRemoveEdge(g, id) ==
    /\ CanCall(g)
    /\ IF id \notin DOMAIN edges
       THEN /\ ReturnsError(g, "RemoveEdge", id, NotFound)
            /\ edges' = edges
       ELSE /\ edges' = MapDelete(edges, {id})
            /\ Notifies(g, "RemoveEdge", id, "notifyGraphUpdated")
    /\ UNCHANGED <<nodes, observers>>

\* One turn of the loop of a notify function: the callback of the next
\* observer.  After the last observer the method calls its next notify
\* function or returns nil.
Notify(g) ==
    LET f       == frames[g]
        entry   == IF f.k <= Len(observers)
                   THEN <<Delivery(f, observers[f.k])>> ELSE << >>
    IN
    /\ f.pc \in NotifyPcs
    /\ IF f.k < Len(observers)
       THEN /\ frames' = [frames EXCEPT ![g] = [f EXCEPT !.k = f.k + 1]]
            /\ trace' = trace \o entry
            /\ UNCHANGED <<op, ret>>
       ELSE IF NextNotify(f) = "return"
       THEN /\ frames' = [frames EXCEPT ![g] = Idle]
            /\ trace' = trace \o entry \o <<ReturnEntry(g, f.name, NoError)>>
            /\ op' = OpRec(f.name, NoError, f.id, {})
            /\ ret' = NilSlice
       ELSE /\ frames' = [frames EXCEPT ![g] =
                            [f EXCEPT !.pc = NextNotify(f), !.k = 1]]
            /\ trace' = trace \o entry
            /\ UNCHANGED <<op, ret>>
    /\ UNCHANGED <<nodes, edges, observers>>

\* og.mu with callbacks that call the ObservableGraph.  sync.RWMutex is not
\* reentrant: Lock waits until no goroutine holds the mutex for reading,
\* the caller included, and RLock waits while a goroutine has called Lock
\* and not returned from Unlock.  A frame with k < 0 is inside the callback
\* of observer -k, which is calling a method of the ObservableGraph.

\* The method of the ObservableGraph the callbacks of an observer call
\* ("" when they call none).
CallbackCalls(observer) ==
    CASE observer = "oAdd" -> "AddObserver"
      [] observer = "oRemove" -> "RemoveObserver"
      [] observer = "oCount" -> "GetObserverCount"
      [] OTHER -> ""

\* Goroutine g holds og.mu for reading: it is in the loop of a notify
\* function, after its first callback, or inside a callback.
HoldsRLock(g) ==
    frames[g].pc \in NotifyPcs /\ (frames[g].k > 1 \/ frames[g].k < 0)

\* Goroutine g is in og.mu.Lock(): in AddObserver or RemoveObserver, called
\* by the goroutine itself or by the callback it is in.
InLock(g) ==
    \/ frames[g].pc = "Lock"
    \/ /\ frames[g].pc \in NotifyPcs
       /\ frames[g].k < 0
       /\ CallbackCalls(observers[-frames[g].k]) \in {"AddObserver", "RemoveObserver"}

WriterPending == \E g \in DOMAIN frames : InLock(g)

\* AddObserver or RemoveObserver up to its call of og.mu.Lock().
LockCall(g, name, observer) ==
    /\ CanCall(g)
    /\ frames' = [frames EXCEPT ![g] =
                    [Idle EXCEPT !.pc = "Lock", !.name = name, !.id = observer]]
    /\ trace' = Append(trace, CallEntry(g, name, observer))
    /\ UNCHANGED <<nodes, edges, observers, op, ret>>

\* The callback of observer i has returned to the loop of the notify
\* function of goroutine g; entries is what the turn adds to the trace.
\* After the last observer og.mu is unlocked and the method calls its next
\* notify function or returns nil.
LoopGoesOn(g, i, entries) ==
    LET f == frames[g] IN
    IF i < Len(observers)
    THEN /\ frames' = [frames EXCEPT ![g] = [f EXCEPT !.k = i + 1]]
         /\ trace' = trace \o entries
         /\ UNCHANGED <<op, ret>>
    ELSE IF NextNotify(f) = "return"
    THEN /\ frames' = [frames EXCEPT ![g] = Idle]
         /\ trace' = trace \o entries \o <<ReturnEntry(g, f.name, NoError)>>
         /\ op' = OpRec(f.name, NoError, f.id, {})
         /\ ret' = NilSlice
    ELSE /\ frames' = [frames EXCEPT ![g] = [f EXCEPT !.pc = NextNotify(f), !.k = 1]]
         /\ trace' = trace \o entries
         /\ UNCHANGED <<op, ret>>

\* og.mu.Lock() returns in goroutine g: no goroutine holds og.mu.  The
\* method changes og.observers and unlocks.
LockAcquired(g) ==
    LET f        == frames[g]
        inside   == f.pc \in NotifyPcs
        name     == IF inside THEN CallbackCalls(observers[-f.k]) ELSE f.name
        observer == IF inside THEN observers[-f.k] ELSE f.id
    IN
    /\ InLock(g)
    /\ \A h \in DOMAIN frames : ~HoldsRLock(h)
    /\ observers' = IF name = "AddObserver"
                    THEN Append(observers, observer)
                    ELSE RemoveFirst(observers, observer)
    /\ IF inside
       THEN LoopGoesOn(g, -f.k, << >>)
       ELSE /\ frames' = [frames EXCEPT ![g] = Idle]
            /\ trace' = Append(trace, ReturnEntry(g, f.name, NoError))
            /\ op' = OpRec(f.name, NoError, f.id, {})
            /\ ret' = NilSlice
    /\ UNCHANGED <<nodes, edges>>

\* GetObserverCount called by the callback goroutine g is in: og.mu.RLock()
\* returns when no goroutine is in Lock.
CallbackRLock(g) ==
    LET f == frames[g] IN
    /\ f.pc \in NotifyPcs
    /\ f.k < 0
    /\ CallbackCalls(observers[-f.k]) = "GetObserverCount"
    /\ ~WriterPending
    /\ LoopGoesOn(g, -f.k, << >>)
    /\ UNCHANGED <<nodes, edges, observers>>

\* One turn of the loop of a notify function with og.mu: the first turn
\* follows og.mu.RLock(), which waits while a goroutine is in Lock.  The
\* callback of the observer returns, or calls a method of the
\* ObservableGraph.
LockedNotify(g) ==
    LET f == frames[g] IN
    /\ f.pc \in NotifyPcs
    /\ f.k >= 1
    /\ f.k = 1 => ~WriterPending
    /\ IF f.k > Len(observers)
       THEN LoopGoesOn(g, f.k, << >>)
       ELSE IF CallbackCalls(observers[f.k]) = ""
       THEN LoopGoesOn(g, f.k, <<Delivery(f, observers[f.k])>>)
       ELSE /\ frames' = [frames EXCEPT ![g] = [f EXCEPT !.k = -f.k]]
            /\ trace' = Append(trace, Delivery(f, observers[f.k]))
            /\ UNCHANGED <<op, ret>>
    /\ UNCHANGED <<nodes, edges, observers>>

---------------------------------------------------------------------------
(* Spec: the graph store, built from the empty graph by its calls *)

NodeIDs == {"n1", "n2"}
Names == {"a"}
EdgeIDs == {EdgeNames[i] : i \in 1..MaxEdges}

\* The arguments AddNode is called with.
NodeInputs ==
    {NilPtr} \cup
    [id : NodeIDs \cup {""}, type : NodeTypes, name : Names,
     state : {"", NodeStateRunning},
     startedAt : {NilTime}, completedAt : {NilTime}, duration : {NilTime}]

\* The arguments AddEdge is called with.
EdgeInputs ==
    {NilPtr} \cup
    [id : EdgeIDs \cup {""}, from : NodeIDs, to : NodeIDs,
     type : EdgeTypes \cup {"bogus"}]

\* NewGraph
Init ==
    /\ nodes = EmptyMap
    /\ edges = EmptyMap
    /\ op = OpRec("NewGraph", NoError, "", {})
    /\ ret = NilSlice
    /\ trace = << >>
    /\ observers = << >>
    /\ frames = << >>

Next ==
    \/ \E node \in NodeInputs : AddNode(node)
    \/ \E edge \in EdgeInputs : AddEdge(edge)
    \/ \E id \in NodeIDs : RemoveNode(id)
    \/ \E id \in EdgeIDs : RemoveEdge(id)
    \/ TopologicalSort
    \/ HasCycle

Spec == Init /\ [][Next]_vars

---------------------------------------------------------------------------
(* Graphs the store can hold, for the specifications that start from one *)

\* The position of x in the sequence seq.
IndexOf(seq, x) == CHOOSE i \in 1..Len(seq) : seq[i] = x

EdgeTypeSeq == <<EdgeTypeDependsOn, EdgeTypeProvisions, EdgeTypeCreates,
                 EdgeTypeBindsTo, EdgeTypeContains, EdgeTypeConfigures>>

\* The edges AddEdge accepts between the nodes of g_nodes.
ValidEdges(g_nodes) ==
    {e \in [from : DOMAIN g_nodes, to : DOMAIN g_nodes, type : EdgeTypes] :
        validateEdge(g_nodes, e) = NoError}

\* Edge IDs only label the edges: of the edge maps that differ by a
\* renaming of the IDs, one is kept (e1, e2, ... in rising rank).
EdgeRank(idSeq, e) ==
    (IndexOf(EdgeTypeSeq, e.type) * 10 + IndexOf(idSeq, e.from)) * 10
        + IndexOf(idSeq, e.to)

\* The sequences of k options in rising rank, none below rank low.
RECURSIVE RisingSeqs(_, _, _, _)
RisingSeqs(options, rank, k, low) ==
    IF k = 0
    THEN {<< >>}
    ELSE UNION {{<<e>> \o rest : rest \in RisingSeqs(options, rank, k - 1, rank[e])} :
                e \in {x \in options : rank[x] >= low}}

EdgeMaps(idSeq, options, maxEdges) ==
    LET rank == [e \in options |-> EdgeRank(idSeq, e)]
    IN UNION {{[i \in {EdgeNames[j] : j \in 1..k} |-> f[IndexOf(EdgeNames, i)]] :
               f \in RisingSeqs(options, rank, k, 0)} :
              k \in 0..maxEdges}

---------------------------------------------------------------------------
(* SpecTopo: TopologicalSort and HasCycle applied to a graph *)

TopoNodeSeq == <<"spec1", "wf1", "step1", "res1">>
TopoNodeType == <<NodeTypeSpec, NodeTypeWorkflow, NodeTypeStep, NodeTypeResource>>

TopoNodes(S) ==
    [n \in S |-> [type  |-> TopoNodeType[IndexOf(TopoNodeSeq, n)],
                  name  |-> n,
                  state |-> NodeStateWaiting,
                  startedAt   |-> NilTime,
                  completedAt |-> NilTime,
                  duration    |-> NilTime]]

InitTopo ==
    /\ \E S \in SUBSET {TopoNodeSeq[i] : i \in 1..Len(TopoNodeSeq)} :
        /\ nodes = TopoNodes(S)
        /\ edges \in EdgeMaps(TopoNodeSeq, ValidEdges(TopoNodes(S)), TopoMaxEdges)
    /\ op = OpRec("NewGraph", NoError, "", {})
    /\ ret = NilSlice
    /\ trace = << >>
    /\ observers = << >>
    /\ frames = << >>

NextTopo ==
    \/ TopologicalSort
    \/ HasCycle

SpecTopo == InitTopo /\ [][NextTopo]_vars

---------------------------------------------------------------------------
(* SpecState: UpdateNodeState applied to workflows and their steps *)

StateNodeSeq == <<"wf1", "wf2", "st1", "st2">>
StateNodeType == <<NodeTypeWorkflow, NodeTypeWorkflow, NodeTypeStep, NodeTypeStep>>
StateNodeIDs == {StateNodeSeq[i] : i \in 1..Len(StateNodeSeq)}
\* The graphs have one workflow and two steps.
StateNodeSets == {{"wf1", "st1", "st2"}}
\* The time of every call: the stamps are all equal.
StateTimes == {0}

\* Nodes added with State stateOf[n] and no stamp.
StateNodes(stateOf) ==
    [n \in DOMAIN stateOf |->
        [type  |-> StateNodeType[IndexOf(StateNodeSeq, n)],
         name  |-> n,
         state |-> stateOf[n],
         startedAt   |-> NilTime,
         completedAt |-> NilTime,
         duration    |-> NilTime]]

\* The contains edges, and two creates edges that run from a workflow to a
\* step without containing it.
StateEdgeOptions(S) ==
    {e \in ValidEdges(StateNodes([n \in S |-> NodeStateWaiting])) :
        \/ e.type = EdgeTypeContains
        \/ e.type = EdgeTypeCreates /\ e.from = "wf2" /\ e.to = "st1"
        \/ e.type = EdgeTypeCreates /\ e.from = "wf1" /\ e.to = "st2"}

InitState ==
    /\ \E S \in StateNodeSets :
        /\ \E stateOf \in [S -> NodeStates] : nodes = StateNodes(stateOf)
        /\ edges \in EdgeMaps(StateNodeSeq, StateEdgeOptions(S), StateMaxEdges)
    /\ op = OpRec("NewGraph", NoError, "", {})
    /\ ret = NilSlice
    /\ trace = << >>
    /\ observers = << >>
    /\ frames = << >>

NextState ==
    \E id \in UNION StateNodeSets \cup {"ghost"}, s \in NodeStates,
       now \in StateTimes :
        UpdateNodeState(id, s, now)

SpecState == InitState /\ [][NextState]_vars

---------------------------------------------------------------------------
(* SpecLife: the graph store and the state machine together, from the
   empty graph *)

LifeNodeTypes == NodeTypes
LifeEdgeTypes == {EdgeTypeDependsOn, EdgeTypeContains, EdgeTypeProvisions}
LifeEdgeIDs == {EdgeNames[i] : i \in 1..LifeMaxEdges}
LifeStates == {NodeStateRunning, NodeStateFailed}
LifeTimes == {0}

LifeNodeInputs ==
    {NilPtr} \cup
    [id : NodeIDs \cup {""}, type : LifeNodeTypes, name : Names, state : {""},
     startedAt : {NilTime}, completedAt : {NilTime}, duration : {NilTime}]

LifeEdgeInputs ==
    {NilPtr} \cup
    [id : LifeEdgeIDs \cup {""}, from : NodeIDs, to : NodeIDs,
     type : LifeEdgeTypes \cup {"bogus"}]

NextLife ==
    \/ \E node \in LifeNodeInputs : AddNode(node)
    \/ \E edge \in LifeEdgeInputs : AddEdge(edge)
    \/ \E id \in NodeIDs : RemoveNode(id)
    \/ \E id \in LifeEdgeIDs : RemoveEdge(id)
    \/ \E id \in NodeIDs, s \in LifeStates, now \in LifeTimes :
          UpdateNodeState(id, s, now)

SpecLife == Init /\ [][NextLife]_vars

---------------------------------------------------------------------------
(* SpecExec: ExecuteGraph applied to a graph the Repository holds *)

ExecNodeSeq == <<"wf1", "wf2", "res1", "st1">>
ExecNodeType == <<NodeTypeWorkflow, NodeTypeWorkflow, NodeTypeResource, NodeTypeStep>>

ExecNodes(S) ==
    [n \in S |-> [type  |-> ExecNodeType[IndexOf(ExecNodeSeq, n)],
                  name  |-> n,
                  state |-> NodeStateWaiting,
                  startedAt   |-> NilTime,
                  completedAt |-> NilTime,
                  duration    |-> NilTime]]

\* The edges of the graphs: depends-on edges that chain the nodes, close a
\* cycle or loop on a node, and edges of the five other types.
ExecEdgeChoice ==
    {<<EdgeTypeDependsOn, "wf1", "res1">>, <<EdgeTypeDependsOn, "wf2", "wf1">>,
     <<EdgeTypeDependsOn, "res1", "wf2">>, <<EdgeTypeDependsOn, "wf2", "st1">>,
     <<EdgeTypeDependsOn, "wf1", "wf1">>,
     <<EdgeTypeProvisions, "wf1", "res1">>, <<EdgeTypeCreates, "wf1", "res1">>,
     <<EdgeTypeBindsTo, "wf2", "res1">>, <<EdgeTypeContains, "wf1", "st1">>,
     <<EdgeTypeConfigures, "st1", "res1">>}

\* The graphs hold two workflows and a resource, with or without a step.
ExecNodeSets == {{"wf1", "wf2", "res1"}, {"wf1", "wf2", "res1", "st1"}}

\* The Repository calls that fail in a call of ExecuteGraph: one that
\* keeps the runner from being called, or none or one UpdateGraphRun.
ExecRepoAborts == {{RepoLoadGraph}, {RepoCreateGraphRun}}
ExecRepoFails == {{}, {RepoUpdateRunning}, {RepoUpdateTerminal}}

ExecEdgeOptions(S) ==
    {e \in ValidEdges(ExecNodes(S)) : <<e.type, e.from, e.to>> \in ExecEdgeChoice}

\* The runner calls ExecuteGraph can make on the graph.
RunnerCallsOf(g_nodes, g_edges) ==
    {RunnerCall("RunWorkflow", n, "") :
        n \in {x \in DOMAIN g_nodes : g_nodes[x].type = NodeTypeWorkflow}}
    \cup {RunnerCall("ProvisionResource", g_edges[e].from, g_edges[e].to) :
            e \in {x \in DOMAIN g_edges : g_edges[x].type = EdgeTypeProvisions}}
    \cup {RunnerCall("CreateResource", g_edges[e].from, g_edges[e].to) :
            e \in {x \in DOMAIN g_edges : g_edges[x].type = EdgeTypeCreates}}

\* The environments of a call: which Repository calls and which runner
\* calls return an error.
ExecEnvs(g_nodes, g_edges) ==
    [repoFails : ExecRepoAborts, runnerFails : {{}}]
    \cup [repoFails : ExecRepoFails,
          runnerFails : SUBSET RunnerCallsOf(g_nodes, g_edges)]

InitExec ==
    /\ \E S \in ExecNodeSets :
        /\ nodes = ExecNodes(S)
        /\ edges \in EdgeMaps(ExecNodeSeq, ExecEdgeOptions(S), ExecMaxEdges)
    /\ op = OpRec("NewGraph", NoError, "", {})
    /\ ret = NilSlice
    /\ trace = << >>
    /\ observers = << >>
    /\ frames = << >>

NextExec ==
    \E env \in ExecEnvs(nodes, edges) : ExecuteGraph(env)

SpecExec == InitExec /\ [][NextExec]_vars

---------------------------------------------------------------------------
(* SpecObs: the calls one goroutine makes on an ObservableGraph that wraps
   a workflow and two steps *)

ObsObservers == {"o1", "o2"}
\* og.observers when the calls begin: AddObserver appended these.
ObsObserverLists == {<< >>, <<"o1">>, <<"o1", "o2">>, <<"o1", "o2", "o1">>}
ObsNodeSet == {"wf1", "st1", "st2"}
ObsStates == {NodeStateRunning, NodeStateFailed}
ObsTimes == {0}

\* In the wrapped graph the workflow contains st1 (edge e1), or both steps
\* (edges e1 and e2).
ObsEdgeMaps ==
    {em \in EdgeMaps(StateNodeSeq,
                     {e \in ValidEdges(StateNodes([n \in ObsNodeSet |-> NodeStateWaiting])) :
                         e.type = EdgeTypeContains /\ e.from = "wf1"}, 2) :
        /\ \E e \in DOMAIN em : em[e].to = "st1"
        /\ Cardinality({em[e] : e \in DOMAIN em}) = Cardinality(DOMAIN em)}

ObsNodeInputs ==
    {NilPtr} \cup
    [id : {"st1", "res1"}, type : {NodeTypeResource}, name : Names, state : {""},
     startedAt : {NilTime}, completedAt : {NilTime}, duration : {NilTime}]

ObsEdgeInputs ==
    [id : {"e1", "e3"}, from : {"st1"}, to : {"res1"}, type : {EdgeTypeConfigures}]
    \cup [id : {"e3"}, from : {"wf1"}, to : {"st1"}, type : {EdgeTypeContains}]

InitObs ==
    /\ \E s \in {NodeStateWaiting, NodeStateRunning} :
          nodes = StateNodes([n \in ObsNodeSet |-> s])
    /\ edges \in ObsEdgeMaps
    /\ op = OpRec("NewObservableGraph", NoError, "", {})
    /\ ret = NilSlice
    /\ trace = << >>
    /\ observers \in ObsObserverLists
    /\ frames = [g \in {"g1"} |-> Idle]

\* At most ObsMaxCalls calls are made.
NextObs ==
    \E g \in DOMAIN frames :
        \/ /\ CallsMade < ObsMaxCalls
           /\ \/ \E o \in ObsObservers : AddObserver(g, o)
              \/ \E o \in ObsObservers : RemoveObserver(g, o)
              \/ \E id \in {"wf1", "st1", "ghost"}, s \in ObsStates :
                    ObservableUpdateNodeState(g, id, s)
              \/ \E node \in ObsNodeInputs : ObservableAddNode(g, node)
              \/ \E edge \in ObsEdgeInputs : ObservableAddEdge(g, edge)
              \/ \E id \in {"wf1", "ghost"} : ObservableRemoveNode(g, id)
              \/ \E id \in {"e1", "ghost"} : ObservableRemoveEdge(g, id)
        \/ \E now \in ObsTimes : ApplyUpdateNodeState(g, now)
        \/ MapAssign(g)
        \/ Notify(g)

SpecObs == InitObs /\ [][NextObs]_vars

---------------------------------------------------------------------------
(* SpecTrack: one goroutine changes node states, removes a node and adds
   it again, while two observers listen and one of them is removed *)

\* The step that is removed and added again.
TrackNodeInputs ==
    [id : {"st1"}, type : {NodeTypeStep}, name : {"st1"}, state : {""},
     startedAt : {NilTime}, completedAt : {NilTime}, duration : {NilTime}]

\* The calls of UpdateNodeState: on the workflow, on the step it contains,
\* and on a step it does not contain.
TrackUpdates ==
    {<<id, s>> : id \in {"wf1", "st1"}, s \in {NodeStateRunning, NodeStateFailed}}
    \cup {<<"st2", NodeStateFailed>>}

InitTrack ==
    /\ nodes = StateNodes([n \in ObsNodeSet |-> NodeStateWaiting])
    /\ edges = [e \in {"e1"} |->
                  [from |-> "wf1", to |-> "st1", type |-> EdgeTypeContains]]
    /\ op = OpRec("NewObservableGraph", NoError, "", {})
    /\ ret = NilSlice
    /\ trace = << >>
    /\ observers = <<"o1", "o2">>
    /\ frames = [g \in {"g1"} |-> Idle]

NextTrack ==
    \/ /\ CallsMade < TrackMaxCalls
       /\ \/ \E u \in TrackUpdates : ObservableUpdateNodeState("g1", u[1], u[2])
          \/ ObservableRemoveNode("g1", "st1")
          \/ \E node \in TrackNodeInputs : ObservableAddNode("g1", node)
          \/ RemoveObserver("g1", "o2")
    \/ \E now \in ObsTimes : ApplyUpdateNodeState("g1", now)
    \/ MapAssign("g1")
    \/ Notify("g1")

SpecTrack == InitTrack /\ [][NextTrack]_vars

---------------------------------------------------------------------------
(* SpecObsConc: two goroutines call UpdateNodeState on the same
   ObservableGraph, one of them after it added the node; their steps
   interleave *)

ConcObserverLists == {<<"o1">>, <<"o1", "o2">>}
ConcStates == {NodeStateRunning, NodeStateFailed}

InitObsConc ==
    /\ nodes = StateNodes([n \in ObsNodeSet |-> NodeStateWaiting])
    /\ edges \in ObsEdgeMaps
    /\ op = OpRec("NewObservableGraph", NoError, "", {})
    /\ ret = NilSlice
    /\ trace = << >>
    /\ observers \in ConcObserverLists
    /\ frames = [g \in {"g1", "g2"} |-> Idle]

\* The node one goroutine adds while the calls of UpdateNodeState run.
ConcNodeInputs ==
    [id : {"wf2"}, type : {NodeTypeWorkflow}, name : {"a"},
     state : {NodeStateWaiting},
     startedAt : {NilTime}, completedAt : {NilTime}, duration : {NilTime}]

\* The calls of UpdateNodeState: on a step of the graph, and on the node
\* that is being added.
ConcUpdates ==
    {<<"st1", s>> : s \in ConcStates} \cup {<<"wf2", NodeStateRunning>>}

NextObsConc ==
    \/ /\ CallsMade < ObsMaxCalls
       /\ \E node \in ConcNodeInputs : ObservableAddNode("g1", node)
    \/ \E g \in DOMAIN frames :
        \/ /\ CallsMade < ObsMaxCalls
           /\ \E u \in ConcUpdates : ObservableUpdateNodeState(g, u[1], u[2])
        \/ \E now \in ObsTimes : ApplyUpdateNodeState(g, now)
        \/ MapAssign(g)
        \/ ConcurrentMapAccess(g)
        \/ Notify(g)

SpecObsConc == InitObsConc /\ [][NextObsConc]_vars

---------------------------------------------------------------------------
(* SpecTime: UpdateNodeState called at successive times on a workflow and
   its step *)

TimeNodeSet == {"wf1", "st1"}
\* What time.Now() can return: the clock reading of a call is not before
\* the reading of an earlier call.
TimeClock == 0..TimeMax

\* The graph has no edge, or wf1 contains st1.
TimeEdgeMaps ==
    {EmptyMap,
     [e \in {"e1"} |-> [type |-> EdgeTypeContains, from |-> "wf1", to |-> "st1"]]}

InitTime ==
    /\ \E stateOf \in [TimeNodeSet -> NodeStates] : nodes = StateNodes(stateOf)
    /\ edges \in TimeEdgeMaps
    /\ op = OpRec("NewGraph", NoError, "", {})
    /\ ret = NilSlice
    /\ trace = << >>
    /\ observers = << >>
    /\ frames = << >>

NextTime ==
    \E id \in TimeNodeSet, s \in NodeStates, now \in TimeClock :
        UpdateNodeState(id, s, now)

SpecTime == InitTime /\ [][NextTime]_vars

---------------------------------------------------------------------------
(* SpecShared: UpdateNodeState applied to a step that no workflow, one
   workflow or two workflows contain *)

SharedNodeSet == {"wf1", "wf2", "st1"}
SharedContains(w) == [type |-> EdgeTypeContains, from |-> w, to |-> "st1"]

\* AddEdge accepts a contains edge to a step that another workflow
\* contains already.
SharedEdgeMaps ==
    {EmptyMap,
     [e \in {"e1"} |-> SharedContains("wf1")],
     [e \in {"e1"} |-> SharedContains("wf2")],
     [e \in {"e1", "e2"} |-> IF e = "e1" THEN SharedContains("wf1")
                                        ELSE SharedContains("wf2")]}

InitShared ==
    /\ \E stateOf \in [SharedNodeSet -> NodeStates] : nodes = StateNodes(stateOf)
    /\ edges \in SharedEdgeMaps
    /\ \A e \in DOMAIN edges : AddEdgeErr(nodes, EmptyMap, [id |-> e,
              from |-> edges[e].from, to |-> edges[e].to,
              type |-> edges[e].type]) = NoError
    /\ op = OpRec("NewGraph", NoError, "", {})
    /\ ret = NilSlice
    /\ trace = << >>
    /\ observers = << >>
    /\ frames = << >>

NextShared ==
    \E id \in SharedNodeSet, s \in NodeStates, now \in StateTimes :
        UpdateNodeState(id, s, now)

SpecShared == InitShared /\ [][NextShared]_vars

---------------------------------------------------------------------------
(* SpecObsLive: goroutine g1 changes an ObservableGraph whose observers
   call it back, while goroutine g2 registers and removes observers *)

LiveObserverLists == {<<"o1">>, <<"oCount", "o1">>, <<"oAdd">>, <<"o1", "oRemove">>}
LiveStates == {NodeStateRunning}
LiveNodeInputs ==
    [id : {"res1"}, type : {NodeTypeResource}, name : {"a"}, state : {""},
     startedAt : {NilTime}, completedAt : {NilTime}, duration : {NilTime}]
LiveEdgeInputs ==
    [id : {"e3"}, from : {"wf1"}, to : {"st2"}, type : {EdgeTypeContains}]

InitObsLive ==
    /\ nodes = StateNodes([n \in ObsNodeSet |-> NodeStateWaiting])
    /\ edges = [e \in {"e1"} |->
                  [from |-> "wf1", to |-> "st1", type |-> EdgeTypeContains]]
    /\ op = OpRec("NewGraph", NoError, "", {})
    /\ ret = NilSlice
    /\ trace = << >>
    /\ observers \in LiveObserverLists
    /\ frames = [g \in {"g1", "g2"} |-> Idle]

\* What a goroutine that is in a call does next.
GoesOn(g) ==
    \/ \E now \in ObsTimes : ApplyUpdateNodeState(g, now)
    \/ MapAssign(g)
    \/ LockedNotify(g)
    \/ CallbackRLock(g)
    \/ LockAcquired(g)

NextObsLive ==
    \/ /\ CallsMade < ObsMaxCalls
       /\ \/ \E s \in LiveStates : ObservableUpdateNodeState("g1", "st1", s)
          \/ \E node \in LiveNodeInputs : ObservableAddNode("g1", node)
          \/ \E edge \in LiveEdgeInputs : ObservableAddEdge("g1", edge)
          \/ \E id \in {"st2"} : ObservableRemoveNode("g1", id)
          \/ \E id \in {"e1"} : ObservableRemoveEdge("g1", id)
          \/ \E name \in {"AddObserver", "RemoveObserver"}, o \in {"o1"} :
                LockCall("g2", name, o)
    \/ \E g \in {"g1", "g2"} : GoesOn(g)

\* A goroutine that can go on does.
SpecObsLive ==
    /\ InitObsLive
    /\ [][NextObsLive]_vars
    /\ \A g \in {"g1", "g2"} : WF_vars(GoesOn(g))

---------------------------------------------------------------------------
(* Properties of the TopologicalPlanner, under SpecTopo *)

\* The graph of TestGraph_TopologicalSort: wf1 depends on spec1 and
\* provisions res1.
IsExampleGraph ==
    /\ DOMAIN nodes = {"spec1", "wf1", "res1"}
    /\ Cardinality(DOMAIN edges) = 2
    /\ {edges[e] : e \in DOMAIN edges} =
          {[from |-> "wf1", to |-> "spec1", type |-> "depends-on"],
           [from |-> "wf1", to |-> "res1", type |-> "provisions"]}

\* C1: on an acyclic graph TopologicalSort succeeds and, in the order it
\* returns, the target of every depends-on edge comes before its source and
\* the source of every other edge before its target; on the example graph
\* the order is exactly spec1, wf1, res1.
C1_OrderRespectsDirection ==
    (op.name = "TopologicalSort" /\ ~HasDirectedCycle(edges)) =>
        /\ op.err = NoError
        /\ \A p \in MustPrecede(edges) :
              /\ PositionIn(ret, p[1]) > 0
              /\ PositionIn(ret, p[1]) < PositionIn(ret, p[2])
        /\ IsExampleGraph => ret = <<"spec1", "wf1", "res1">>

\* TopologicalSort has returned the order of the example graph.
C1_Witness ==
    /\ op.name = "TopologicalSort"
    /\ IsExampleGraph
    /\ ret = <<"spec1", "wf1", "res1">>

\* C2 as stated: for any graph, what TopologicalSort returns is a
\* permutation of the node set.
C2_PermutationOfAnyGraph ==
    op.name = "TopologicalSort" => IsPermutation(ret, DOMAIN nodes)

\* C2 as amended: for any acyclic graph TopologicalSort succeeds and returns
\* a permutation of exactly the node set; for a graph with a cycle it
\* returns CycleDetected and a nil result.
C2_PermutationOfAcyclicGraph ==
    op.name = "TopologicalSort" =>
        IF HasDirectedCycle(edges)
        THEN op.err = CycleDetected /\ ret = NilSlice
        ELSE op.err = NoError /\ IsPermutation(ret, DOMAIN nodes)

\* TopologicalSort has ordered four nodes linked by three edges.
C2_Witness ==
    /\ op.name = "TopologicalSort"
    /\ op.err = NoError
    /\ Cardinality(DOMAIN nodes) = 4
    /\ Cardinality(DOMAIN edges) = 3
    /\ IsPermutation(ret, DOMAIN nodes)

\* C4: TopologicalSort fails, with CycleDetected, exactly when the combined
\* direction relation has a directed cycle, and HasCycle returns true
\* exactly then.
C4_FailsIffCycle ==
    /\ op.name = "TopologicalSort" =>
          /\ op.err \in {NoError, CycleDetected}
          /\ (op.err = CycleDetected) <=> HasDirectedCycle(edges)
    /\ op.name = "HasCycle" => (ret <=> HasDirectedCycle(edges))

\* TopologicalSort has failed on a cycle made of a depends-on edge and an
\* edge of another type, parallel between the same two nodes, that no
\* single edge closes.
C4_Witness ==
    /\ op.name = "TopologicalSort"
    /\ op.err = CycleDetected
    /\ \E d, f \in DOMAIN edges :
          /\ edges[d].type = "depends-on"
          /\ edges[f].type # "depends-on"
          /\ edges[d].from = edges[f].from
          /\ edges[d].to = edges[f].to
          /\ edges[d].from # edges[d].to
    /\ \A e \in DOMAIN edges : edges[e].from # edges[e].to

\* C32: two calls of TopologicalSort on the same unchanged graph return the
\* same node order, also when several nodes are ready at the same time.
C32_SortIsDeterministic ==
    [][(/\ op.name = "TopologicalSort" /\ op.err = NoError
        /\ op'.name = "TopologicalSort" /\ op'.err = NoError
        /\ nodes' = nodes /\ edges' = edges) => ret' = ret]_vars

---------------------------------------------------------------------------
(* Properties of the GraphStore, under Spec *)

\* edge passes the checks of ID, endpoints and rule table in the graph.
IsValidEdge(g_nodes, g_edges, edge) ==
    /\ edge.id # ""
    /\ edge.id \notin DOMAIN g_edges
    /\ edge.from \in DOMAIN g_nodes
    /\ edge.to \in DOMAIN g_nodes
    /\ <<edge.type, g_nodes[edge.from].type, g_nodes[edge.to].type>> \in RuleTable

\* Whatever the graph holds, AddEdge accepts every valid edge, also one
\* that closes a cycle.
C3_AcceptsValidEdges ==
    \A edge \in EdgeInputs \ {NilPtr} :
        IsValidEdge(nodes, edges, edge) => AddEdgeErr(nodes, edges, edge) = NoError

\* One step: an accepted edge is stored as given; on a graph with a cycle
\* TopologicalSort fails with CycleDetected and HasCycle returns true; a
\* cycle goes away only by a successful RemoveEdge or RemoveNode.
C3_Step ==
    /\ (op'.name = "AddEdge" /\ op'.err = NoError) =>
          /\ op'.id \notin DOMAIN edges
          /\ DOMAIN edges' = DOMAIN edges \cup {op'.id}
    /\ op'.name = "TopologicalSort" =>
          (HasDirectedCycle(edges') => op'.err = CycleDetected /\ ret' = NilSlice)
    /\ op'.name = "HasCycle" =>
          (HasDirectedCycle(edges') => ret' = TRUE)
    /\ \/ edges' = edges
       \/ op'.name \in {"RemoveEdge", "RemoveNode"} /\ op'.err = NoError
       \/ HasDirectedCycle(edges) => HasDirectedCycle(edges')

\* C3: AddEdge performs no cycle check, and once an edge has closed a cycle
\* every TopologicalSort fails with CycleDetected and HasCycle returns true
\* until RemoveEdge or RemoveNode breaks the cycle.
C3_NoCycleCheck == [](C3_AcceptsValidEdges) /\ [][C3_Step]_vars

\* AddEdge has just accepted the edge that closes a cycle: the graph has a
\* cycle and has none without that edge.
C3_Witness ==
    /\ op.name = "AddEdge"
    /\ op.err = NoError
    /\ HasDirectedCycle(edges)
    /\ ~HasDirectedCycle(MapDelete(edges, {op.id}))
    /\ Cardinality(DOMAIN edges) = 2

\* One AddNode call: NodeInvalid for a nil node or an empty ID (op.id is
\* "" for both), DuplicateID for an ID the graph holds, success otherwise;
\* a failure leaves both maps as they were, a success the stored nodes.
C9_Step ==
    op'.name = "AddNode" =>
        /\ op'.err = (IF op'.id = "" THEN NodeInvalid
                      ELSE IF op'.id \in DOMAIN nodes THEN DuplicateID
                      ELSE NoError)
        /\ op'.err # NoError => (nodes' = nodes /\ edges' = edges)
        /\ op'.err = NoError =>
              /\ DOMAIN nodes' = DOMAIN nodes \cup {op'.id}
              /\ \A n \in DOMAIN nodes : nodes'[n] = nodes[n]
              /\ edges' = edges

\* C9: AddNode fails with NodeInvalid for a nil node or an empty ID and
\* with DuplicateID for an ID already present, and every failure leaves the
\* node map, the edge map and the stored nodes unchanged.
C9_AddNodeFailureLeavesGraph == [][C9_Step]_vars

\* AddNode has been refused as a duplicate of a node that was added
\* running, in a graph that holds an edge.
C9_Witness ==
    /\ op.name = "AddNode"
    /\ op.err = DuplicateID
    /\ nodes[op.id].state = "running"
    /\ edges # EmptyMap

\* One AddEdge call: it returns an error and leaves both maps as they were
\* unless the edge has a non-empty unused ID, two endpoints the graph holds
\* and a type the rule table allows between them; then the edge is added.
C10_Step ==
    op'.name = "AddEdge" =>
        IF op'.err = NoError
        THEN /\ op'.id # ""
             /\ op'.id \notin DOMAIN edges
             /\ DOMAIN edges' = DOMAIN edges \cup {op'.id}
             /\ \A e \in DOMAIN edges : edges'[e] = edges[e]
             /\ edges'[op'.id].from \in DOMAIN nodes
             /\ edges'[op'.id].to \in DOMAIN nodes
             /\ <<edges'[op'.id].type, nodes[edges'[op'.id].from].type,
                  nodes[edges'[op'.id].to].type>> \in RuleTable
             /\ nodes' = nodes
        ELSE /\ op'.err \in {EdgeInvalid, DuplicateID, DanglingReference,
                            EdgeTypeViolation}
             /\ nodes' = nodes
             /\ edges' = edges

\* C10: on every failure path of AddEdge the call returns an error and the
\* node map and the edge map are as before the call.
C10_AddEdgeFailureLeavesGraph == [][C10_Step]_vars

\* AddEdge has been refused for its type in a graph that holds an edge.
C10_Witness ==
    /\ op.name = "AddEdge"
    /\ op.err = EdgeTypeViolation
    /\ edges # EmptyMap

---------------------------------------------------------------------------
(* Properties of the StateMachine, under SpecState *)

\* The step has called UpdateNodeState(op'.id, failed) with success.
StepFailedNow ==
    /\ op'.name = "UpdateNodeState"
    /\ op'.err = NoError
    /\ nodes[op'.id].type = "step"
    /\ nodes'[op'.id].state = "failed"

\* The workflow has called UpdateNodeState(op'.id, s) with success; s is
\* the state the workflow has after the call.
WorkflowUpdatedNow ==
    /\ op'.name = "UpdateNodeState"
    /\ op'.err = NoError
    /\ nodes[op'.id].type = "workflow"

\* The nodes whose record the step has changed.
ChangedNodes == {n \in DOMAIN nodes : nodes'[n] # nodes[n]}

\* The contains edges that target node n.
ContainsEdgesTo(g_edges, n) ==
    {e \in DOMAIN g_edges : g_edges[e].type = "contains" /\ g_edges[e].to = n}

C5_Step ==
    (StepFailedNow /\ Cardinality(ContainsEdgesTo(edges, op'.id)) = 1) =>
        /\ \A w \in ParentsOf(edges, op'.id) :
              /\ nodes'[w].state = "failed"
              /\ \A sib \in ChildrenOf(edges, w) \ {op'.id} :
                    nodes[sib].state = "waiting" => nodes'[sib].state = "waiting"

\* C5: when UpdateNodeState sets a step to failed and exactly one contains
\* edge targets the step, the workflow at the source of that edge is failed
\* when the call returns, whatever the states before; a sibling step that
\* is waiting stays waiting.
C5_UpwardRule == [][C5_Step]_vars

\* UpdateNodeState(st1, failed) has failed wf1, the one parent of st1, and
\* wf1's other step st2 is waiting.
C5_Witness ==
    /\ op.name = "UpdateNodeState"
    /\ op.id = "st1"
    /\ nodes["st1"].state = "failed"
    /\ op.written = {"wf1"}
    /\ nodes["wf1"].state = "failed"
    /\ Cardinality(DOMAIN edges) = 2
    /\ ParentsOf(edges, "st1") = {"wf1"}
    /\ ChildrenOf(edges, "wf1") = {"st1", "st2"}
    /\ nodes["st2"].state = "waiting"

C6_Step ==
    WorkflowUpdatedNow =>
        \A c \in ChildrenOf(edges, op'.id) :
            nodes'[c].state =
                IF /\ nodes'[op'.id].state \in {"failed", "succeeded"}
                   /\ nodes[c].state = "running"
                THEN nodes'[op'.id].state
                ELSE nodes[c].state

\* C6: UpdateNodeState(w, s) on a workflow w sets every running child of w
\* to s when s is failed or succeeded and leaves the children in another
\* state unchanged; for any other s no child changes.
C6_DownwardRule == [][C6_Step]_vars

\* UpdateNodeState(wf1, succeeded) has set the running child st1 to
\* succeeded and left the waiting child st2 waiting.
C6_Witness ==
    /\ op.name = "UpdateNodeState"
    /\ op.id = "wf1"
    /\ nodes["wf1"].state = "succeeded"
    /\ ChildrenOf(edges, "wf1") = {"st1", "st2"}
    /\ op.written = {"st1"}
    /\ nodes["st1"].state = "succeeded"
    /\ nodes["st2"].state = "waiting"

C7_Step ==
    op'.name = "UpdateNodeState" =>
        \A w \in DOMAIN nodes :
            (/\ nodes[w].type = "workflow"
             /\ nodes'[w].state # nodes[w].state
             /\ nodes'[w].state \in {"failed", "succeeded"}) =>
                \A c \in ChildrenOf(edges, w) :
                    nodes[c].state = "running" => nodes'[c].state = nodes'[w].state

\* C7: whenever an UpdateNodeState call makes a workflow failed or
\* succeeded, directly or by upward propagation, every child of the
\* workflow that was running has the workflow's new state after the call.
C7_RunningChildrenInherit == [][C7_Step]_vars

C8_Step ==
    StepFailedNow =>
        /\ Cardinality(ChangedNodes \ {op'.id}) <= 1
        /\ \A n \in ChangedNodes \ {op'.id} :
              /\ n \in ParentsOf(edges, op'.id)
              /\ nodes'[n] = [nodes[n] EXCEPT !.state = "failed"]
        /\ edges' = edges

\* C8: UpdateNodeState(step, failed) changes the state of at most the step
\* and one parent workflow; the downward rule is not applied to the parent,
\* so every other node, a running sibling included, keeps its state.
C8_UpwardDoesNotReenter == [][C8_Step]_vars

\* UpdateNodeState(st1, failed) has failed the parent wf1 while wf1's other
\* step st2 is running, and st2 is still running.
C8_Witness ==
    /\ op.name = "UpdateNodeState"
    /\ op.id = "st1"
    /\ nodes["st1"].state = "failed"
    /\ op.written = {"wf1"}
    /\ ChildrenOf(edges, "wf1") = {"st1", "st2"}
    /\ nodes["st2"].state = "running"

---------------------------------------------------------------------------
(* Properties of the EdgeValidator and of removal, under Spec *)

\* The edges AddEdge can be given that have a non-empty unused ID and two
\* endpoints the graph holds.
WellFormedEdges ==
    {edge \in EdgeInputs \ {NilPtr} :
        /\ edge.id # ""
        /\ edge.id \notin DOMAIN edges
        /\ edge.from \in DOMAIN nodes
        /\ edge.to \in DOMAIN nodes}

\* The rule table, spelled out per edge type.
AllowedByRuleTable(edgeType, fromType, toType) ==
    \/ edgeType = "depends-on"
    \/ edgeType = "provisions" /\ fromType = "workflow" /\ toType = "resource"
    \/ edgeType = "creates" /\ fromType = "workflow"
    \/ edgeType = "binds-to" /\ toType = "resource"
    \/ edgeType = "contains" /\ fromType = "workflow" /\ toType = "step"
    \/ edgeType = "configures" /\ fromType = "step" /\ toType = "resource"

\* C11: for an edge with a non-empty unused ID whose endpoints exist,
\* AddEdge succeeds if and only if the rule table allows the triple of edge
\* type, from-node type and to-node type, and fails with EdgeTypeViolation
\* otherwise, an edge type outside the six included; an edge AddEdge has
\* just stored is allowed by the table.
C11_RuleTableDecides ==
    /\ \A edge \in WellFormedEdges :
          AddEdgeErr(nodes, edges, edge) =
              IF AllowedByRuleTable(edge.type, nodes[edge.from].type,
                                    nodes[edge.to].type)
              THEN NoError ELSE EdgeTypeViolation
    /\ (op.name = "AddEdge" /\ op.err = NoError) =>
          /\ op.id \in DOMAIN edges
          /\ AllowedByRuleTable(edges[op.id].type, nodes[edges[op.id].from].type,
                                nodes[edges[op.id].to].type)

\* AddEdge has refused an edge for its type on a graph that holds a
\* workflow, a step and an accepted contains edge between them, and that
\* still has an unused edge ID.
C11_Witness ==
    /\ op.name = "AddEdge"
    /\ op.err = EdgeTypeViolation
    /\ op.id \notin DOMAIN edges
    /\ \E e \in DOMAIN edges :
          /\ edges[e].type = "contains"
          /\ nodes[edges[e].from].type = "workflow"
          /\ nodes[edges[e].to].type = "step"

\* One RemoveNode or RemoveEdge call: on an ID the graph holds the node
\* goes with exactly the edges that touch it (the edge goes alone), and
\* everything else is as before; on an absent ID the call fails with
\* NotFound and both maps are as before.
C12_Step ==
    /\ op'.name = "RemoveNode" =>
          IF op'.id \in DOMAIN nodes
          THEN /\ op'.err = NoError
               /\ DOMAIN nodes' = DOMAIN nodes \ {op'.id}
               /\ \A n \in DOMAIN nodes' : nodes'[n] = nodes[n]
               /\ DOMAIN edges' =
                     {e \in DOMAIN edges :
                         edges[e].from # op'.id /\ edges[e].to # op'.id}
               /\ \A e \in DOMAIN edges' : edges'[e] = edges[e]
          ELSE /\ op'.err = NotFound
               /\ nodes' = nodes
               /\ edges' = edges
    /\ op'.name = "RemoveEdge" =>
          /\ nodes' = nodes
          /\ IF op'.id \in DOMAIN edges
             THEN /\ op'.err = NoError
                  /\ DOMAIN edges' = DOMAIN edges \ {op'.id}
                  /\ \A e \in DOMAIN edges' : edges'[e] = edges[e]
             ELSE /\ op'.err = NotFound
                  /\ edges' = edges

\* C12: RemoveNode(id) on an existing node removes that node and exactly
\* the edges whose from or to endpoint is id and leaves every other node
\* and edge unchanged; RemoveNode and RemoveEdge on an absent ID fail with
\* NotFound and change nothing.
C12_RemoveCascades == [][C12_Step]_vars

\* RemoveNode has removed a node; another node and an edge that does not
\* touch the removed node are still in the graph.
C12_Witness ==
    /\ op.name = "RemoveNode"
    /\ op.err = NoError
    /\ op.id \notin DOMAIN nodes
    /\ nodes # EmptyMap
    /\ edges # EmptyMap

---------------------------------------------------------------------------
(* Properties of the whole graph, under SpecLife *)

\* C13: after any sequence of AddNode, AddEdge, RemoveNode, RemoveEdge and
\* UpdateNodeState calls on a graph that starts empty, every edge of the
\* edge map has both endpoints in the node map and is allowed by the rule
\* table for the types its endpoints have now.
C13_EdgesWellFormed ==
    \A e \in DOMAIN edges :
        /\ edges[e].from \in DOMAIN nodes
        /\ edges[e].to \in DOMAIN nodes
        /\ <<edges[e].type, nodes[edges[e].from].type, nodes[edges[e].to].type>>
              \in RuleTable

\* AddNode has added a resource while the graph holds an edge and a failed
\* node: the edge is on the other node, whatever edges the added ID had
\* under an earlier type went with its removal.
C13_Witness ==
    /\ op.name = "AddNode"
    /\ op.err = NoError
    /\ nodes[op.id].type = "resource"
    /\ \E e \in DOMAIN edges : edges[e].from # op.id /\ edges[e].to # op.id
    /\ \E n \in DOMAIN nodes : nodes[n].state = "failed"

---------------------------------------------------------------------------
(* Properties of UpdateNodeState's result, under SpecState *)

\* Whatever state a node of the graph is in, UpdateNodeState can be called
\* on it with every state and leaves the node in that state.
C14_EveryTransitionAccepted ==
    \A id \in DOMAIN nodes, s \in NodeStates, now \in StateTimes :
        /\ UpdateNodeStateResults(nodes, edges, id, s, now) # {}
        /\ \A m \in UpdateNodeStateResults(nodes, edges, id, s, now) :
              m[id].state = s

\* One UpdateNodeState call: NotFound for an ID the graph does not hold,
\* and then every node is as before, state and stamps; success otherwise.
C14_Step ==
    op'.name = "UpdateNodeState" =>
        IF op'.id \in DOMAIN nodes
        THEN op'.err = NoError
        ELSE /\ op'.err = NotFound
             /\ nodes' = nodes
             /\ edges' = edges

\* C14: UpdateNodeState fails exactly when the node ID is absent, and then
\* no node state or timing field changes; for an existing node it succeeds
\* for every target state from every current state.
C14_FailsOnlyWhenAbsent == [](C14_EveryTransitionAccepted) /\ [][C14_Step]_vars

\* UpdateNodeState has put st1 back to running after st1 had been stamped
\* as completed.
C14_Witness ==
    /\ op.name = "UpdateNodeState"
    /\ op.err = NoError
    /\ op.id = "st1"
    /\ nodes["st1"].state = "running"
    /\ nodes["st1"].completedAt # NilTime

---------------------------------------------------------------------------
(* Properties of the ExecutionEngine, under SpecExec *)

\* ExecuteGraph has returned a plan.
PlanReturned == op.name = "ExecuteGraph" /\ ret # NilPtr

\* The nodes n depends on: the targets of its depends-on edges.
DependsOnTargets(n) ==
    {edges[e].to : e \in {x \in DOMAIN edges :
        edges[x].type = "depends-on" /\ edges[x].from = n}}

\* The entries of the trace made for node n: its executeNode and the
\* runner calls made while it was executed.
HandlerEntries(n) ==
    {i \in 1..Len(trace) :
        /\ trace[i][1] \in {"executeNode", "RunWorkflow", "ProvisionResource",
                            "CreateResource"}
        /\ trace[i][2] = n}

\* The chain of three: wf2 depends on wf1, wf1 depends on res1.
IsChainGraph ==
    /\ DOMAIN nodes = {"wf1", "wf2", "res1"}
    /\ Cardinality(DOMAIN edges) = 2
    /\ {edges[e] : e \in DOMAIN edges} =
          {[from |-> "wf1", to |-> "res1", type |-> "depends-on"],
           [from |-> "wf2", to |-> "wf1", type |-> "depends-on"]}

\* RunWorkflow was called on w and returned an error.
RunWorkflowFailed(w) ==
    \E i \in 1..Len(trace) : trace[i] = <<"RunWorkflow", w, "", "error">>

\* C15: in the plan ExecuteGraph returns, every node with a depends-on
\* dependency whose status is failed is skipped, and neither executeNode
\* nor a runner method was invoked for it; in the chain of three whose
\* middle node's handler fails, the first node is completed, the middle
\* one failed, the last one skipped and the plan failed.
C15_SkipRule ==
    PlanReturned =>
        /\ \A n \in DOMAIN nodes :
              (\E dep \in DependsOnTargets(n) :
                    ret.executions[dep].status = "failed") =>
                 /\ ret.executions[n].status = "skipped"
                 /\ HandlerEntries(n) = {}
        /\ (IsChainGraph /\ RunWorkflowFailed("wf1")) =>
              /\ ret.order = <<"res1", "wf1", "wf2">>
              /\ ret.executions["res1"].status = "completed"
              /\ ret.executions["wf1"].status = "failed"
              /\ ret.executions["wf2"].status = "skipped"
              /\ ret.status = "failed"

\* ExecuteGraph has returned the plan of the chain of three after
\* RunWorkflow failed on the middle node; the last node is skipped.
C15_Witness ==
    /\ PlanReturned
    /\ IsChainGraph
    /\ RunWorkflowFailed("wf1")
    /\ ret.executions["wf2"].status = "skipped"
    /\ HandlerEntries("wf2") = {}

\* C16: skipping is not transitive.  In the plan ExecuteGraph returns, a
\* node none of whose depends-on dependencies is failed (each is completed
\* or skipped) was executed: executeNode was invoked for it and it is
\* completed or failed, also when one of the dependencies is skipped.
C16_SkipIsNotTransitive ==
    PlanReturned =>
        \A n \in DOMAIN nodes :
            (\A dep \in DependsOnTargets(n) :
                  ret.executions[dep].status \in {"completed", "skipped"}) =>
               /\ ret.executions[n].status \in {"completed", "failed"}
               /\ \E i \in HandlerEntries(n) : trace[i][1] = "executeNode"

\* ExecuteGraph has returned a plan in which wf1 is failed, wf2, which
\* depends on wf1, is skipped, and res1, which depends on wf2 only, was
\* executed and is completed.
C16_Witness ==
    /\ PlanReturned
    /\ DependsOnTargets("wf2") = {"wf1"}
    /\ DependsOnTargets("res1") = {"wf2"}
    /\ ret.executions["wf1"].status = "failed"
    /\ ret.executions["wf2"].status = "skipped"
    /\ ret.executions["res1"].status = "completed"
    /\ HandlerEntries("res1") # {}

\* C17: a handler failure does not stop the walk.  In the plan
\* ExecuteGraph returns every node has a final status; a node is skipped
\* only if one of its depends-on edges leads to a failed node; every other
\* node, whatever edges of the other five types join it to a failed node,
\* was executed.
C17_IndependentBranchesRun ==
    PlanReturned =>
        \A n \in DOMAIN nodes :
            /\ n \in DOMAIN ret.executions
            /\ ret.executions[n].status \in {"completed", "failed", "skipped"}
            /\ ret.executions[n].status = "skipped" =>
                  \E e \in DOMAIN edges :
                      /\ edges[e].type = "depends-on"
                      /\ edges[e].from = n
                      /\ ret.executions[edges[e].to].status = "failed"
            /\ ret.executions[n].status # "skipped" =>
                  \E i \in 1..Len(trace) : /\ trace[i][1] = "executeNode"
                                           /\ trace[i][2] = n

\* ExecuteGraph has returned a plan in which wf1 is failed, res1, which
\* wf1 provisions, was executed after it and is completed, and wf2, which
\* has no edge, is completed too.
C17_Witness ==
    /\ PlanReturned
    /\ \E e \in DOMAIN edges :
          edges[e] = [from |-> "wf1", to |-> "res1", type |-> "provisions"]
    /\ \A e \in DOMAIN edges : edges[e].from # "wf2" /\ edges[e].to # "wf2"
    /\ ret.executions["wf1"].status = "failed"
    /\ ret.executions["res1"].status = "completed"
    /\ ret.executions["wf2"].status = "completed"
    /\ \E i, j \in 1..Len(trace) :
          /\ i < j
          /\ trace[i] = <<"executeNode", "wf1", "", ret.executions["wf1"].error>>
          /\ trace[j] = <<"executeNode", "res1", "", "">>

\* The nodes of the plan whose status is failed.
FailedInPlan == {n \in DOMAIN ret.executions : ret.executions[n].status = "failed"}

\* C18: when ExecuteGraph returns a plan, plan.Status is completed if no
\* NodeExecution is failed and failed otherwise; the last Repository call
\* is UpdateGraphRun with plan.Status, with an error message exactly when
\* the status is failed.
C18_PlanStatus ==
    PlanReturned =>
        /\ ret.status = (IF FailedInPlan = {} THEN "completed" ELSE "failed")
        /\ trace[Len(trace)][1] = "UpdateGraphRun"
        /\ trace[Len(trace)][2] = ret.status
        /\ (trace[Len(trace)][3] # "nil") <=> (ret.status = "failed")
        /\ \A i \in 1..(Len(trace) - 1) :
              trace[i][1] = "UpdateGraphRun" => trace[i][2] = "running"

\* ExecuteGraph has returned a failed plan in which a node failed early
\* and the nodes after it completed; UpdateGraphRun got failed and the
\* message.
C18_Witness ==
    /\ PlanReturned
    /\ ret.status = "failed"
    /\ FailedInPlan = {ret.order[1]}
    /\ Len(ret.order) = 3
    /\ ret.executions[ret.order[3]].status = "completed"
    /\ trace[Len(trace)][1] = "UpdateGraphRun"
    /\ trace[Len(trace)][3] = "Some nodes failed to execute"

\* The entries of the trace in which a runner method returned an error.
RunnerErrors ==
    {i \in 1..Len(trace) :
        /\ trace[i][1] \in {"RunWorkflow", "ProvisionResource", "CreateResource"}
        /\ trace[i][4] = "error"}

\* C19: no handler failure aborts ExecuteGraph.  Whenever a runner method
\* returned an error during the call, for any number of nodes, the call
\* went on to the terminal UpdateGraphRun and returned a plan with a nil
\* error, in which the node the runner was called for is failed with a
\* non-empty Error.
C19_HandlerFailuresAreRecorded ==
    (op.name = "ExecuteGraph" /\ RunnerErrors # {}) =>
        /\ ret # NilPtr
        /\ op.err = NoError
        /\ trace[Len(trace)][1] = "UpdateGraphRun"
        /\ trace[Len(trace)][2] = "failed"
        /\ \A i \in RunnerErrors :
              /\ ret.executions[trace[i][2]].status = "failed"
              /\ ret.executions[trace[i][2]].error # ""

\* ExecuteGraph has returned a plan after RunWorkflow failed for one
\* workflow and CreateResource for the other; both are failed.
C19_Witness ==
    /\ PlanReturned
    /\ op.err = NoError
    /\ \E i, j \in RunnerErrors :
          /\ trace[i][1] = "RunWorkflow"
          /\ trace[j][1] = "CreateResource"
          /\ trace[i][2] # trace[j][2]
          /\ ret.executions[trace[i][2]].error = "workflow execution failed"
          /\ ret.executions[trace[j][2]].error = "resource creation failed"

\* C20: when LoadGraph fails or the loaded graph has a cycle, ExecuteGraph
\* returns an error and no plan, and LoadGraph is the only call it made:
\* no CreateGraphRun, no UpdateGraphRun, no runner method, no handler.
C20_NoRunRecordOnEarlyFailure ==
    (/\ op.name = "ExecuteGraph"
     /\ \/ trace[1] = <<"LoadGraph", "", "", "error">>
        \/ HasDirectedCycle(edges)) =>
        /\ ret = NilPtr
        /\ op.err \in {LoadFailed, CycleDetected}
        /\ Len(trace) = 1
        /\ trace[1][1] = "LoadGraph"

\* ExecuteGraph has returned CycleDetected for a loaded graph with a
\* cycle, in an environment whose other calls would have succeeded.
C20_Witness ==
    /\ op.name = "ExecuteGraph"
    /\ op.err = CycleDetected
    /\ HasDirectedCycle(edges)
    /\ ret = NilPtr
    /\ trace = <<(<<"LoadGraph", "", "", "">>)>>

\* The entries of the trace in which the Repository method returned an
\* error.
RepoErrors(method) ==
    {i \in 1..Len(trace) : trace[i][1] = method /\ trace[i][4] = "error"}

\* C21 as stated: whenever a Repository call made by ExecuteGraph
\* (LoadGraph, CreateGraphRun, or UpdateGraphRun for the running or the
\* terminal status) returned an error, ExecuteGraph returns a non-nil error
\* and no plan.
C21_EveryPersistenceFailureAborts ==
    (/\ op.name = "ExecuteGraph"
     /\ \E method \in {"LoadGraph", "CreateGraphRun", "UpdateGraphRun"} :
           RepoErrors(method) # {}) =>
        /\ ret = NilPtr
        /\ op.err # NoError

\* C21 as amended: an error of LoadGraph or CreateGraphRun aborts the call,
\* which returns a non-nil error and no plan and makes no further call; an
\* error of UpdateGraphRun, for the running or the terminal status, does
\* not: the walk goes on to the terminal UpdateGraphRun and the plan is
\* returned with a nil error.
C21_LoadAndCreateFailuresAbort ==
    op.name = "ExecuteGraph" =>
        /\ (RepoErrors("LoadGraph") \cup RepoErrors("CreateGraphRun") # {}) =>
              /\ ret = NilPtr
              /\ op.err \in {LoadFailed, CreateRunFailed}
              /\ trace[Len(trace)][4] = "error"
              /\ RepoErrors("LoadGraph") \cup RepoErrors("CreateGraphRun")
                    = {Len(trace)}
        /\ (RepoErrors("UpdateGraphRun") # {}) =>
              /\ ret # NilPtr
              /\ op.err = NoError
              /\ trace[Len(trace)][1] = "UpdateGraphRun"
              /\ trace[Len(trace)][2] = ret.status
              /\ \A n \in DOMAIN nodes :
                    ret.executions[n].status \in {"completed", "failed", "skipped"}

\* ExecuteGraph has returned a plan with a nil error although the
\* UpdateGraphRun for the terminal status returned an error.
C21_Witness ==
    /\ PlanReturned
    /\ op.err = NoError
    /\ Len(trace) \in RepoErrors("UpdateGraphRun")
    /\ ret.status = "completed"
    /\ \E i \in 1..Len(trace) : trace[i][1] = "RunWorkflow"

\* The entries of the trace in which method was called for workflow w.
RunnerEntries(method, w) ==
    {i \in 1..Len(trace) : trace[i][1] = method /\ trace[i][2] = w}

\* The entries of the trace in which a runner method was called for w.
WorkflowCalls(w) ==
    RunnerEntries("RunWorkflow", w) \cup RunnerEntries("ProvisionResource", w)
        \cup RunnerEntries("CreateResource", w)

\* The edges of the given type from w to t.
EdgesOfType(type, w, t) ==
    {e \in DOMAIN edges :
        edges[e].type = type /\ edges[e].from = w /\ edges[e].to = t}

\* C22: in the plan ExecuteGraph returns, for every workflow node that was
\* executed: RunWorkflow was called once; every ProvisionResource and
\* CreateResource call for it comes after its RunWorkflow returned success,
\* so none is made when RunWorkflow failed; a ProvisionResource call is
\* made only for a provisions edge and a CreateResource call only for a
\* creates edge, against the edge's target; when every call succeeded each
\* such edge got exactly one call; and the node is failed exactly when one
\* of its runner calls returned an error.
C22_WorkflowHandler ==
    PlanReturned =>
        \A w \in {n \in DOMAIN nodes : nodes[n].type = "workflow"} :
            ret.executions[w].status \in {"completed", "failed"} =>
                /\ Cardinality(RunnerEntries("RunWorkflow", w)) = 1
                /\ \A j \in RunnerEntries("ProvisionResource", w)
                            \cup RunnerEntries("CreateResource", w) :
                      \E i \in 1..(j - 1) : trace[i] = <<"RunWorkflow", w, "", "">>
                /\ RunWorkflowFailed(w) =>
                      WorkflowCalls(w) = RunnerEntries("RunWorkflow", w)
                /\ \A j \in RunnerEntries("ProvisionResource", w) :
                      EdgesOfType("provisions", w, trace[j][3]) # {}
                /\ \A j \in RunnerEntries("CreateResource", w) :
                      EdgesOfType("creates", w, trace[j][3]) # {}
                /\ (\A i \in WorkflowCalls(w) : trace[i][4] = "") =>
                      \A t \in DOMAIN nodes :
                          /\ Cardinality({j \in RunnerEntries("ProvisionResource", w) :
                                              trace[j][3] = t})
                                = Cardinality(EdgesOfType("provisions", w, t))
                          /\ Cardinality({j \in RunnerEntries("CreateResource", w) :
                                              trace[j][3] = t})
                                = Cardinality(EdgesOfType("creates", w, t))
                /\ (ret.executions[w].status = "failed") <=>
                      (\E i \in WorkflowCalls(w) : trace[i][4] = "error")

\* ExecuteGraph has returned a plan in which wf1, which provisions and
\* creates res1, is completed after RunWorkflow, ProvisionResource and
\* CreateResource were each called once for it.
C22_Witness ==
    /\ PlanReturned
    /\ EdgesOfType("provisions", "wf1", "res1") # {}
    /\ EdgesOfType("creates", "wf1", "res1") # {}
    /\ ret.executions["wf1"].status = "completed"
    /\ Cardinality(WorkflowCalls("wf1")) = 3
    /\ \E j \in RunnerEntries("CreateResource", "wf1") :
          trace[j] = <<"CreateResource", "wf1", "res1", "">>

\* The entries of the trace at which a handler was entered, in order.
HandlerStarts == SelectSeq(trace, LAMBDA entry : entry[1] = "executeNode")

\* The nodes of the plan's order that were not skipped, in order.
ExecutedInOrder ==
    SelectSeq(ret.order, LAMBDA n : ret.executions[n].status # "skipped")

\* C23: ExecuteGraph takes the nodes one at a time in the order
\* TopologicalSort returned.  In the plan it returns, the order holds every
\* node once and every node has a final status; the handlers were entered
\* in that order, once for each node that was not skipped and never for a
\* skipped one; every runner call belongs to the handler entered last, so
\* no two handlers overlap; and every depends-on dependency of a node
\* comes before it in the order, so it had its final status when the node
\* was examined.
C23_WalkInOrder ==
    PlanReturned =>
        /\ IsPermutation(ret.order, DOMAIN nodes)
        /\ \A n \in DOMAIN nodes :
              ret.executions[n].status \in {"completed", "failed", "skipped"}
        /\ [i \in 1..Len(HandlerStarts) |-> HandlerStarts[i][2]] = ExecutedInOrder
        /\ \A j \in 1..Len(trace) :
              trace[j][1] \in {"RunWorkflow", "ProvisionResource", "CreateResource"} =>
                  \E i \in 1..(j - 1) :
                      /\ trace[i][1] = "executeNode"
                      /\ trace[i][2] = trace[j][2]
                      /\ \A k \in (i + 1)..(j - 1) : trace[k][1] # "executeNode"
        /\ \A n \in DOMAIN nodes : \A dep \in DependsOnTargets(n) :
              /\ PositionIn(ret.order, dep) < PositionIn(ret.order, n)
              /\ ret.executions[dep].status # "skipped" =>
                    \E i, j \in 1..Len(trace) :
                        /\ i < j
                        /\ trace[i][1] = "executeNode" /\ trace[i][2] = dep
                        /\ (\/ ret.executions[n].status = "skipped"
                            \/ trace[j][1] = "executeNode" /\ trace[j][2] = n)

\* ExecuteGraph has returned the plan of the chain of three with every
\* node completed: the handlers of res1, wf1 and wf2 were entered in that
\* order, each followed by its own runner call.
C23_Witness ==
    /\ PlanReturned
    /\ IsChainGraph
    /\ ret.order = <<"res1", "wf1", "wf2">>
    /\ ret.status = "completed"
    /\ SubSeq(trace, 4, 8) = <<(<<"executeNode", "res1", "", "">>),
                               (<<"executeNode", "wf1", "", "">>),
                               (<<"RunWorkflow", "wf1", "", "">>),
                               (<<"executeNode", "wf2", "", "">>),
                               (<<"RunWorkflow", "wf2", "", "">>)>>

\* The graph holds the edge of the given type from a to b.
HasEdge(type, a, b) ==
    \E e \in DOMAIN edges : edges[e] = [from |-> a, to |-> b, type |-> type]

\* C24: when the graph holds a step node that a workflow contains and that
\* configures a resource, and no runner call returned an error, the plan
\* ExecuteGraph returns is completed and the step node's execution is
\* completed.
C24_StepNodesComplete ==
    (/\ PlanReturned
     /\ "st1" \in DOMAIN nodes
     /\ nodes["st1"].type = "step"
     /\ HasEdge("contains", "wf1", "st1")
     /\ HasEdge("configures", "st1", "res1")
     /\ RunnerErrors = {}) =>
        /\ ret.status = "completed"
        /\ ret.executions["st1"].status = "completed"

\* C25: when ExecuteGraph returns a plan, every node whose handler ran was
\* moved through UpdateNodeState to running and then to succeeded or
\* failed: its state in the loaded graph is succeeded when its execution
\* is completed and failed when it is failed, and the calls made during
\* ExecuteGraph hold an UpdateNodeState of the node to running before one
\* to that final state.
C25_EngineDrivesStateMachine ==
    PlanReturned =>
        \A n \in DOMAIN nodes :
            ret.executions[n].status \in {"completed", "failed"} =>
                LET final == IF ret.executions[n].status = "completed"
                             THEN "succeeded" ELSE "failed"
                IN /\ nodes[n].state = final
                   /\ \E i, j \in 1..Len(trace) :
                         /\ i < j
                         /\ trace[i][1] = "UpdateNodeState"
                         /\ trace[i][2] = n /\ trace[i][3] = "running"
                         /\ trace[j][1] = "UpdateNodeState"
                         /\ trace[j][2] = n /\ trace[j][3] = final

\* ExecuteGraph got a sorted order from TopologicalSort: it made a call
\* after LoadGraph.
PastPlanning == op.name = "ExecuteGraph" /\ Len(trace) > 1

\* The entries of the trace that are calls of a runner method.
RunnerCallEntries ==
    {i \in 1..Len(trace) :
        trace[i][1] \in {"RunWorkflow", "ProvisionResource", "CreateResource"}}

\* The entries of the trace that are calls of the Repository method.
RepoCallEntries(method) == {i \in 1..Len(trace) : trace[i][1] = method}

\* C31: in an ExecuteGraph call that gets past planning, CreateGraphRun is
\* called once, with the graph's version, right after LoadGraph.  When it
\* fails nothing else is called.  When it succeeds it is followed by
\* UpdateGraphRun(running), and the call ends with the one terminal
\* UpdateGraphRun, completed or failed as the plan is; by then every node
\* has a final status and every handler has returned, and the runner
\* methods are all called between CreateGraphRun and the terminal update.
C31_RunRecordProtocol ==
    PastPlanning =>
        /\ trace[1] = <<"LoadGraph", "", "", "">>
        /\ RepoCallEntries("CreateGraphRun") = {2}
        /\ trace[2][3] = "1"
        /\ IF trace[2][4] = "error"
           THEN Len(trace) = 2 /\ ret = NilPtr
           ELSE /\ Len(trace) >= 4
                /\ RepoCallEntries("UpdateGraphRun") = {3, Len(trace)}
                /\ trace[3][2] = "running"
                /\ trace[Len(trace)][2] \in {"completed", "failed"}
                /\ ret # NilPtr
                /\ trace[Len(trace)][2] = ret.status
                /\ \A n \in DOMAIN nodes :
                      /\ ret.executions[n].status \in {"completed", "failed", "skipped"}
                      /\ ret.executions[n].status # "skipped" =>
                            \E i \in 4..(Len(trace) - 1) :
                                trace[i][1] = "executeNode" /\ trace[i][2] = n
                /\ \A i \in RunnerCallEntries : 3 < i /\ i < Len(trace)

\* ExecuteGraph has returned a failed plan after three runner calls made
\* between UpdateGraphRun(running) and UpdateGraphRun(failed).
C31_Witness ==
    /\ PastPlanning
    /\ ret # NilPtr
    /\ ret.status = "failed"
    /\ Cardinality(RunnerCallEntries) >= 3
    /\ trace[3] = <<"UpdateGraphRun", "running", "nil", "">>
    /\ trace[Len(trace)] = <<"UpdateGraphRun", "failed",
                              "Some nodes failed to execute", "">>

\* Every runner call made in both of two successive ExecuteGraph calls
\* returned the same in both: the runner's result depends only on the
\* method and its arguments.
RunnerIsAFunction ==
    \A i \in 1..Len(trace), j \in 1..Len(trace') :
        (/\ trace[i][1] \in {"RunWorkflow", "ProvisionResource", "CreateResource"}
         /\ trace'[j][1] = trace[i][1]
         /\ trace'[j][2] = trace[i][2]
         /\ trace'[j][3] = trace[i][3]) => trace'[j][4] = trace[i][4]

\* C33: two ExecuteGraph calls on the same acyclic graph, with a runner
\* whose result depends only on its arguments, return plans with the same
\* status and the same final status of every node, whatever order
\* TopologicalSort returned in each and in whatever order each visited the
\* outgoing edges of a workflow.
C33_OutcomeIndependentOfTieBreak ==
    [][(/\ op.name = "ExecuteGraph" /\ ret # NilPtr
        /\ op'.name = "ExecuteGraph" /\ ret' # NilPtr
        /\ nodes' = nodes /\ edges' = edges
        /\ RunnerIsAFunction) =>
            /\ ret'.status = ret.status
            /\ \A n \in DOMAIN nodes :
                  ret'.executions[n].status = ret.executions[n].status]_vars

\* ExecuteGraph has returned a plan for a graph whose workflows wf1 and wf2
\* are both ready at the start and whose workflow wf1 has two outgoing
\* edges: the sort put wf2 first, and wf1 failed on the provisions edge,
\* which it visited after the creates edge.
C33_Witness ==
    /\ PlanReturned
    /\ {edges[e] : e \in DOMAIN edges} =
          {[from |-> "wf1", to |-> "res1", type |-> "provisions"],
           [from |-> "wf1", to |-> "res1", type |-> "creates"]}
    /\ Cardinality(DOMAIN edges) = 2
    /\ ret.order[1] = "wf2"
    /\ \E i \in 1..(Len(trace) - 1) :
          /\ trace[i] = <<"CreateResource", "wf1", "res1", "">>
          /\ trace[i + 1] = <<"ProvisionResource", "wf1", "res1", "error">>
    /\ ret.executions["wf1"].status = "failed"
    /\ ret.executions["wf2"].status = "completed"

\* C34: the plan ExecuteGraph returns has one NodeExecution for each node
\* of the graph and for nothing else, each with the status completed,
\* failed or skipped; plan.Order holds every node of the graph once, and it
\* is the order that was walked: the handlers of the nodes that were not
\* skipped were entered in the order plan.Order gives.
C34_PlanIsComplete ==
    PlanReturned =>
        /\ DOMAIN ret.executions = DOMAIN nodes
        /\ \A n \in DOMAIN ret.executions :
              ret.executions[n].status \in {"completed", "failed", "skipped"}
        /\ Len(ret.order) = Cardinality(DOMAIN nodes)
        /\ \A n \in DOMAIN nodes :
              Cardinality({i \in 1..Len(ret.order) : ret.order[i] = n}) = 1
        /\ \A i, j \in 1..Len(trace) :
              (/\ i < j
               /\ trace[i][1] = "executeNode"
               /\ trace[j][1] = "executeNode") =>
                  PositionIn(ret.order, trace[i][2]) < PositionIn(ret.order, trace[j][2])
        /\ \A n \in DOMAIN nodes :
              ret.executions[n].status # "skipped" <=>
                  \E i \in 1..Len(trace) :
                      trace[i][1] = "executeNode" /\ trace[i][2] = n

\* ExecuteGraph has returned a plan of four nodes in which each final
\* status occurs: the step st1 failed, wf2, which depends on it, was
\* skipped, and wf1 and res1 completed.
C34_Witness ==
    /\ PlanReturned
    /\ DOMAIN nodes = {"wf1", "wf2", "res1", "st1"}
    /\ ret.executions["st1"].status = "failed"
    /\ ret.executions["wf2"].status = "skipped"
    /\ ret.executions["wf1"].status = "completed"
    /\ ret.executions["res1"].status = "completed"
    /\ Len(ret.order) = 4

---------------------------------------------------------------------------
(* Properties of the ObservableGraph, under SpecObs, SpecObsConc and
   SpecTrack *)

\* The places of the trace at which an observer's OnNodeStateChanged ran.
StateChangeDeliveries ==
    {i \in 1..Len(trace) : trace[i][1] = "OnNodeStateChanged"}

\* C26 as stated: for every node and every observer, the
\* OnNodeStateChanged notifications for the node are delivered in the order
\* in which the transitions they report were applied to the graph, also
\* when several goroutines call UpdateNodeState on the ObservableGraph.
C26_PerNodeOrder ==
    \A i, j \in StateChangeDeliveries :
        (/\ i < j
         /\ trace[i][2] = trace[j][2]
         /\ trace[i][3] = trace[j][3]) => trace[i][6] <= trace[j][6]

\* Two calls overlapped: a goroutine called a method while the call of
\* another goroutine had not returned.
CallsOverlapped ==
    \E c1, c2 \in 1..Len(trace) :
        /\ c1 < c2
        /\ trace[c1][1] = "call" /\ trace[c2][1] = "call"
        /\ trace[c1][4] # trace[c2][4]
        /\ \A r \in (c1 + 1)..(c2 - 1) :
              ~(trace[r][1] = "return" /\ trace[r][4] = trace[c1][4])

\* C26 as amended: as long as no two calls on the ObservableGraph overlap
\* (each is made after the one before it returned, from whichever
\* goroutine), every OnNodeStateChanged reports the transition applied
\* last, with the old and the new state of that transition, and for every
\* node and every observer the notifications are delivered in the order in
\* which the transitions were applied.
C26_PerNodeOrderOfSequentialCalls ==
    ~CallsOverlapped =>
        /\ \A j \in StateChangeDeliveries :
              LET t == trace[j][6] IN
              /\ t < j
              /\ trace[t][1] = "applied"
              /\ <<trace[t][2], trace[t][3], trace[t][4]>>
                    = <<trace[j][3], trace[j][4], trace[j][5]>>
              /\ \A h \in (t + 1)..(j - 1) : trace[h][1] # "applied"
        /\ \A i, j \in StateChangeDeliveries :
              (/\ i < j
               /\ trace[i][2] = trace[j][2]
               /\ trace[i][3] = trace[j][3]) => trace[i][6] <= trace[j][6]

\* One goroutine moved st1 to running and, after that call returned,
\* another moved it to failed; o1 was told of the two transitions in that
\* order.
C26_Witness ==
    /\ ~CallsOverlapped
    /\ \A g \in DOMAIN frames : frames[g].pc = "idle"
    /\ \E i, j \in StateChangeDeliveries :
          /\ i < j
          /\ trace[i][2] = "o1" /\ trace[j][2] = "o1"
          /\ trace[i][3] = "st1" /\ trace[j][3] = "st1"
          /\ trace[i][5] = "running" /\ trace[j][4] = "running"
          /\ trace[j][5] = "failed"
          /\ trace[i][6] < trace[j][6]
          /\ trace[trace[i][6]][5] # trace[trace[j][6]][5]

\* The places of the trace at which a callback of observer o ran.
DeliveriesTo(o) ==
    {i \in 1..Len(trace) :
        /\ trace[i][1] \in {"OnNodeStateChanged", "OnNodeUpdated", "OnEdgeAdded",
                            "OnGraphUpdated"}
        /\ trace[i][2] = o}

\* The place of the last call in the trace (0 when there is none).
LastCall ==
    IF \E i \in 1..Len(trace) : trace[i][1] = "call"
    THEN CHOOSE i \in 1..Len(trace) :
            /\ trace[i][1] = "call"
            /\ \A j \in (i + 1)..Len(trace) : trace[j][1] # "call"
    ELSE 0

\* How often callback ran for observer o during the last call.
DeliveredInLastCall(callback, o) ==
    Cardinality({i \in DeliveriesTo(o) : i > LastCall /\ trace[i][1] = callback})

\* How often o is registered.
Registrations(obs, o) == Cardinality({i \in 1..Len(obs) : obs[i] = o})

\* A method that notifies has returned nil.
NotifyingCallReturned ==
    /\ \A g \in DOMAIN frames : frames[g].pc = "idle"
    /\ op.name \in {"AddNode", "AddEdge", "RemoveNode", "RemoveEdge",
                    "UpdateNodeState"}
    /\ op.err = NoError

\* C27 as stated: after RemoveObserver(o) has returned, o receives no
\* notification from an operation that starts afterwards (unless o is added
\* again in between), however often o had been added before.
C27_NoNotificationAfterRemoval ==
    \A c \in 1..Len(trace) :
        (trace[c][1] = "call" /\ trace[c][2] = "RemoveObserver") =>
            \A j \in DeliveriesTo(trace[c][3]) :
                j > c => \E a \in (c + 1)..(j - 1) :
                            /\ trace[a][1] = "call"
                            /\ trace[a][2] = "AddObserver"
                            /\ trace[a][3] = trace[c][3]

\* RemoveObserver(o) takes the first registration of o out of the list and
\* leaves every other entry, and the order of the entries, as they were.
C27_RemoveStep ==
    (op'.name = "RemoveObserver" /\ Len(trace') = Len(trace) + 2) =>
        LET o == op'.id IN
        IF Registrations(observers, o) = 0
        THEN observers' = observers
        ELSE \E i \in 1..Len(observers) :
                /\ observers[i] = o
                /\ \A h \in 1..(i - 1) : observers[h] # o
                /\ observers' = [k \in 1..(Len(observers) - 1) |->
                                    IF k < i THEN observers[k] ELSE observers[k + 1]]

\* When a notifying method has returned nil, every observer got its last
\* callback once for each of its registrations: none when it is not
\* registered.
C27_DeliveredPerRegistration ==
    NotifyingCallReturned =>
        \A o \in ObsObservers :
            DeliveredInLastCall(IF op.name = "UpdateNodeState"
                                THEN "OnNodeUpdated" ELSE "OnGraphUpdated", o)
                = Registrations(observers, o)

\* C27 as amended: RemoveObserver(o) removes one registration of o, the
\* earliest.  After it has returned, o receives from every operation that
\* starts afterwards one notification for each registration it still has,
\* and none once it has been removed as often as it was added; the other
\* observers keep receiving every notification.
C27_RemovesOneRegistration ==
    [](C27_DeliveredPerRegistration) /\ [][C27_RemoveStep]_vars

\* o1 and o2 were registered once each, RemoveObserver(o1) returned, and
\* the AddNode made afterwards notified o2 and not o1.
C27_Witness ==
    /\ observers = <<"o2">>
    /\ NotifyingCallReturned
    /\ trace = <<(<<"call", "RemoveObserver", "o1", "g1">>),
                 (<<"return", "RemoveObserver", NoError, "g1">>),
                 (<<"call", "AddNode", "res1", "g1">>),
                 (<<"OnGraphUpdated", "o2">>),
                 (<<"return", "AddNode", NoError, "g1">>)>>

\* The entries of the trace after the last call and before the return
\* that ends the trace.
LastCallBody == SubSeq(trace, LastCall + 1, Len(trace) - 1)

\* A trace entry that records something an observer can see: every entry
\* but the record of a State write made by propagation.
Observable(e) == e[1] # "propagated"

\* C28: when ObservableGraph.UpdateNodeState(id, s) has returned nil on a
\* node whose state was old, the callbacks that ran during the call are,
\* in this order: OnNodeStateChanged(id, old, s) once for every entry of
\* the observer list if old # s and for none if old = s, then
\* OnNodeUpdated(id) once for every entry of the list.  No callback ran for
\* another node, whatever states the call changed through propagation.
\* When the call has returned an error no callback ran.
C28_UpdateNodeStateNotifies ==
    (/\ op.name = "UpdateNodeState"
     /\ \A g \in DOMAIN frames : frames[g].pc = "idle") =>
        IF op.err # NoError
        THEN LastCallBody = << >>
        ELSE LET applied == LastCallBody[1]
                 id      == op.id
                 old     == applied[3]
                 s       == applied[4]
                 changed == IF old # s
                            THEN [i \in 1..Len(observers) |->
                                    <<"OnNodeStateChanged", observers[i], id,
                                      old, s, LastCall + 1>>]
                            ELSE << >>
                 updated == [i \in 1..Len(observers) |->
                                <<"OnNodeUpdated", observers[i], id>>]
             IN /\ applied[1] = "applied" /\ applied[2] = id
                /\ trace[LastCall] = <<"call", "UpdateNodeState", id, applied[5]>>
                /\ nodes[id].state = s
                /\ SelectSeq(Tail(LastCallBody), Observable) = changed \o updated

\* UpdateNodeState(st1, failed) has returned nil on a running step of a
\* running workflow: the workflow is failed through propagation, and o1
\* and o2 each got one OnNodeStateChanged and then one OnNodeUpdated, all
\* for st1.
C28_Witness ==
    /\ op = OpRec("UpdateNodeState", NoError, "st1", {})
    /\ frames["g1"].pc = "idle"
    /\ observers = <<"o1", "o2">>
    /\ "wf1" \in DOMAIN nodes
    /\ nodes["wf1"].state = "failed"
    /\ HasEdge("contains", "wf1", "st1")
    /\ trace = <<(<<"call", "UpdateNodeState", "st1", "g1">>),
                 (<<"applied", "st1", "running", "failed", "g1">>),
                 (<<"propagated", "wf1", "running", "failed", "g1">>),
                 (<<"OnNodeStateChanged", "o1", "st1", "running", "failed", 2>>),
                 (<<"OnNodeStateChanged", "o2", "st1", "running", "failed", 2>>),
                 (<<"OnNodeUpdated", "o1", "st1">>),
                 (<<"OnNodeUpdated", "o2", "st1">>),
                 (<<"return", "UpdateNodeState", NoError, "g1">>)>>

\* C29: when AddNode, RemoveNode or RemoveEdge of the ObservableGraph has
\* returned nil, the callbacks that ran during the call are OnGraphUpdated
\* once for every entry of the observer list, also when RemoveNode took
\* several edges with the node; when AddEdge has returned nil they are
\* OnEdgeAdded for the edge once for every entry of the list and then
\* OnGraphUpdated once for every entry; when one of the four has returned
\* an error no callback ran.
C29_MutationsNotify ==
    (/\ op.name \in {"AddNode", "AddEdge", "RemoveNode", "RemoveEdge"}
     /\ \A g \in DOMAIN frames : frames[g].pc = "idle") =>
        LET added   == [i \in 1..Len(observers) |->
                          <<"OnEdgeAdded", observers[i], op.id>>]
            updated == [i \in 1..Len(observers) |->
                          <<"OnGraphUpdated", observers[i]>>]
        IN /\ trace[LastCall][2] = op.name
           /\ LastCallBody = IF op.err # NoError THEN << >>
                             ELSE IF op.name = "AddEdge" THEN added \o updated
                             ELSE updated

\* After AddEdge added a second contains edge from wf1 to st1,
\* RemoveNode(wf1) has returned nil and took every edge of wf1 with it, two
\* at least; o1 and o2 each got one OnGraphUpdated.
C29_Witness ==
    /\ op = OpRec("RemoveNode", NoError, "wf1", {})
    /\ frames["g1"].pc = "idle"
    /\ observers = <<"o1", "o2">>
    /\ DOMAIN edges = {}
    /\ "wf1" \notin DOMAIN nodes
    /\ \E i \in 1..Len(trace) :
          /\ trace[i] = <<"OnEdgeAdded", "o1", "e3">>
          /\ i < LastCall
    /\ LastCallBody = <<(<<"OnGraphUpdated", "o1">>), (<<"OnGraphUpdated", "o2">>)>>


\* Observer o has been registered since before the first call: it is in
\* og.observers and neither AddObserver nor RemoveObserver was called for
\* it.
Tracking(o) ==
    /\ \E i \in 1..Len(observers) : observers[i] = o
    /\ \A i \in 1..Len(trace) :
          (trace[i][1] = "call" /\ trace[i][2] \in {"AddObserver", "RemoveObserver"})
              => trace[i][3] # o

\* The OnNodeStateChanged notifications observer o got for node n.
StateChangesSeen(o, n) ==
    {i \in StateChangeDeliveries : trace[i][2] = o /\ trace[i][3] = n}

\* The notification o got for n before notification i, of the transition
\* before (0 when there is none).
SeenBefore(o, n, i) ==
    LET earlier == {j \in StateChangesSeen(o, n) : trace[j][6] < trace[i][6]}
    IN IF earlier = {} THEN 0
       ELSE CHOOSE j \in earlier : \A h \in earlier : h <= j

\* The last notification o got for n.
SeenLast(o, n) ==
    CHOOSE i \in StateChangesSeen(o, n) : \A h \in StateChangesSeen(o, n) : h <= i

\* At place t of the trace RemoveNode(n) is called, and it does not return
\* an error.
RemovedAt(n, t) ==
    /\ trace[t][1] = "call" /\ trace[t][2] = "RemoveNode" /\ trace[t][3] = n
    /\ ~(t < Len(trace) /\ trace[t + 1][1] = "return" /\ trace[t + 1][3] # NoError)

\* After place a of the trace and before place b the state of node n was
\* written by the upward or the downward rule of a call on another node, or
\* n was removed from the graph.
ChangedUntold(n, a, b) ==
    \E t \in (a + 1)..(b - 1) :
        \/ trace[t][1] = "propagated" /\ trace[t][2] = n
        \/ RemovedAt(n, t)

\* The one goroutine is in no call, and the call that returned last is
\* UpdateNodeState.
UpdateNodeStateReturned ==
    /\ frames["g1"].pc = "idle"
    /\ op.name = "UpdateNodeState"

\* C36 as stated: after every UpdateNodeState call returns, for every node
\* of the graph an observer was notified of, the newState of the last
\* OnNodeStateChanged for the node is the state of the node in the graph,
\* and the oldState of each notification is the newState of the
\* notification before it for that node.
C36_NotificationsTrackState ==
    UpdateNodeStateReturned =>
        \A o \in ObsObservers : \A n \in DOMAIN nodes :
            (Tracking(o) /\ StateChangesSeen(o, n) # {}) =>
                /\ trace[SeenLast(o, n)][5] = nodes[n].state
                /\ \A i \in StateChangesSeen(o, n) :
                      SeenBefore(o, n, i) # 0 =>
                          trace[i][4] = trace[SeenBefore(o, n, i)][5]

\* C36 as amended: the same, except where in between (after the
\* transition the last notification reports, or between the transitions two
\* successive notifications report) the state of the node was written by
\* propagation from a call on another node, or the node was removed and
\* added again.
C36_NotificationsTrackOwnCalls ==
    UpdateNodeStateReturned =>
        \A o \in ObsObservers : \A n \in DOMAIN nodes :
            (Tracking(o) /\ StateChangesSeen(o, n) # {}) =>
                /\ \/ trace[SeenLast(o, n)][5] = nodes[n].state
                   \/ ChangedUntold(n, trace[SeenLast(o, n)][6], Len(trace) + 1)
                /\ \A i \in StateChangesSeen(o, n) :
                      SeenBefore(o, n, i) # 0 =>
                          \/ trace[i][4] = trace[SeenBefore(o, n, i)][5]
                          \/ ChangedUntold(n, trace[SeenBefore(o, n, i)][6],
                                           trace[i][6])

\* Four calls have returned: wf1 running, st1 running, st1 failed, which
\* failed wf1 by the upward rule, and wf1 running again.  Observer o1,
\* registered from the start, was told that st1 went from waiting to
\* running and from running to failed, which is the state of st1; of wf1
\* it was told waiting to running and then failed to running, the change
\* in between being the propagated one.
C36_Witness ==
    /\ UpdateNodeStateReturned
    /\ Tracking("o1")
    /\ "st1" \in DOMAIN nodes /\ "wf1" \in DOMAIN nodes
    /\ nodes["st1"].state = "failed"
    /\ {<<trace[i][4], trace[i][5]>> : i \in StateChangesSeen("o1", "st1")} =
          {<<"waiting", "running">>, <<"running", "failed">>}
    /\ trace[SeenLast("o1", "st1")][5] = "failed"
    /\ nodes["wf1"].state = "running"
    /\ {<<trace[i][4], trace[i][5]>> : i \in StateChangesSeen("o1", "wf1")} =
          {<<"waiting", "running">>, <<"failed", "running">>}
    /\ \E t \in 1..Len(trace) : trace[t] = PropagatedEntry("g1", "wf1", "running", "failed")

---------------------------------------------------------------------------
(* Properties of a step with several parents, under SpecShared *)

\* The call that returned last is a successful UpdateNodeState(step,
\* failed).
StepFailedByCall ==
    /\ op.name = "UpdateNodeState"
    /\ op.err = NoError
    /\ nodes[op.id].type = "step"
    /\ nodes[op.id].state = "failed"

\* The workflows with a contains edge to node n.
WorkflowsContaining(n) ==
    {edges[e].from : e \in {x \in DOMAIN edges :
        edges[x].type = "contains" /\ edges[x].to = n}}

\* C37 as stated: after a successful UpdateNodeState(step, failed) every
\* workflow with a contains edge to the step is failed, also when several
\* workflows contain the step, whatever the order in which the edges are
\* visited.
C37_EveryParentFailed ==
    StepFailedByCall =>
        \A w \in WorkflowsContaining(op.id) : nodes[w].state = "failed"

\* C37 as amended: after a successful UpdateNodeState(step, failed), the
\* workflow that contains the step is failed when there is exactly one;
\* when several workflows contain the step at least one of them is failed.
C37_SomeParentFailed ==
    StepFailedByCall =>
        /\ WorkflowsContaining(op.id) # {} =>
              \E w \in WorkflowsContaining(op.id) : nodes[w].state = "failed"
        /\ Cardinality(WorkflowsContaining(op.id)) = 1 =>
              \A w \in WorkflowsContaining(op.id) : nodes[w].state = "failed"

\* UpdateNodeState(st1, failed) has returned for a step that wf1 and wf2
\* contain: it failed wf2 and left wf1 running.
C37_Witness ==
    /\ StepFailedByCall
    /\ op.id = "st1"
    /\ WorkflowsContaining("st1") = {"wf1", "wf2"}
    /\ op.written = {"wf2"}
    /\ nodes["wf2"].state = "failed"
    /\ nodes["wf1"].state = "running"

---------------------------------------------------------------------------
(* Properties of the timing stamps, under SpecTime *)

\* The UpdateNodeState step puts node n into a state of S: it names n and
\* assigns the state, or it writes the state of n by the upward or the
\* downward rule.
PutsInto(n, S) ==
    /\ op'.name = "UpdateNodeState" /\ op'.err = NoError
    /\ n = op'.id \/ n \in op'.written
    /\ nodes'[n].state \in S

\* What one UpdateNodeState step does to the stamps of node n.
C30_StampStep(n) ==
    LET before == nodes[n]
        after  == nodes'[n]
    IN \* a stamp that is set is kept
       /\ before.startedAt # -1 => after.startedAt = before.startedAt
       /\ before.completedAt # -1 => after.completedAt = before.completedAt
       \* an unset stamp is set by the call that puts the node into the
       \* state of the stamp, and by no other call
       /\ before.startedAt = -1 =>
             (after.startedAt # -1 <=> PutsInto(n, {"running"}))
       /\ before.completedAt = -1 =>
             (after.completedAt # -1 <=> PutsInto(n, {"succeeded", "failed"}))
       \* duration is written with completedAt, when startedAt was set
       /\ after.duration # before.duration =>
             /\ before.completedAt = -1 /\ after.completedAt # -1
             /\ before.startedAt # -1
       /\ (before.completedAt = -1 /\ after.completedAt # -1
               /\ before.startedAt # -1) =>
             /\ after.duration = after.completedAt - before.startedAt
             /\ after.duration >= 0

\* C30: startedAt is set by the first UpdateNodeState that puts the node
\* into running, completedAt by the first that puts it into failed or
\* succeeded, whether the call names the node or changes it by
\* propagation; a stamp that is set is not changed by a later call on any
\* node; duration is set only in the call that sets completedAt and only if
\* startedAt was set before, and is then completedAt - startedAt, which is
\* not negative.
C30_FirstEntryStamps ==
    [][\A n \in DOMAIN nodes : C30_StampStep(n)]_vars

\* C38: every node that an UpdateNodeState call puts into failed or
\* succeeded (the node named in the call, a parent workflow failed by the
\* upward rule, a running child changed by the downward rule) has
\* completedAt set when the call returns.  Under SpecLife every node is
\* added by AddNode without a state, hence as waiting, so no node was added
\* to the graph in a terminal state.
C38_EndedNodesHaveCompletedAt ==
    (op.name = "UpdateNodeState" /\ op.err = NoError) =>
        \A n \in {op.id} \cup op.written :
            nodes[n].state \in {"failed", "succeeded"} =>
                nodes[n].completedAt # -1

---------------------------------------------------------------------------
(* Properties of notification dispatch, under SpecObsLive *)

\* C35: every AddNode, AddEdge, RemoveNode, RemoveEdge and UpdateNodeState
\* call on an ObservableGraph eventually returns, also when a callback of
\* an observer calls AddObserver, RemoveObserver or GetObserverCount on
\* the graph and when another goroutine registers or removes observers
\* during the dispatch.
C35_DispatchReturns ==
    (frames["g1"].pc # "idle") ~> (frames["g1"].pc = "idle")

====
